---- MODULE Spec2Model ----
(***************************************************************************)
(* Memory subsystem of the conversational agent: MemoryService (facade),   *)
(* PersistentMemoryService (chat_memory table, short-term accumulator,      *)
(* long-term consolidation), MemoryClassifier and VectorStore.             *)
(*                                                                         *)
(* One asyncio event loop runs everything: a step of the model is the code *)
(* that runs between two suspension points.  The relational store calls    *)
(* are synchronous (query_with_retry), so only the LLM calls suspend.      *)
(***************************************************************************)
EXTENDS Integers, Sequences, FiniteSets, TLC

\* ------------------------------------------------------------------ bounds
MaxCalls == 3
MaxRows == 3
MaxTurns == 9
MaxTasks == 2
MaxAccepts == 9
ConfiguredInterval == 2

\* ------------------------------------------------------- program constants
DefaultShortTermUpdateInterval == 7
ShortTermMaxChars == 5000
MaxLongTermEntries == 5
SimilarityThreshold == 96
\* DialogueQuery._process_query_results keeps this many turns
TurnLimit == 7
\* get_combined_memory's defaults
ConversationHistoryLimit == 7
VectorMemoryLimit == 3

\* --------------------------------------------------------------- data sets
\* Python's None (a record, so that it compares with the dicts)
None == [none |-> TRUE]
Procs == {1, 2}
TaskIds == 1..MaxTasks
RealUsers == {"u1", "u2"}
UserIds == RealUsers \cup {"guest"}
CharacterIds == {"c1", "c2"}
\* config: persistent memory is switched on for character c1 only
GlobalEnabled == TRUE
EnabledCharacters == <<"c1">>
Messages == {"hi", "yo"}
Responses == {"ok"}
\* strings the code slices or measures are sequences of characters
Contents == {<<"a">>, <<"b", "b">>}
\* datetime.now().strftime("%Y-%m-%d"): one clock reading for the whole run
Today == "2026-11-04"
TodayChars == <<"2", "0", "2", "6", "-", "1", "1", "-", "0", "4">>
\* the four characters of the default summary text (line 579)
DefaultSummary == <<"ri", "chang", "dui", "hua">>

VARIABLES
  chat_memory,                \* rows of table chat_memory
  next_id,                    \* AUTO_INCREMENT of chat_memory.id
  short_term_cache,           \* PersistentMemoryService._short_term_cache
  short_term_update_interval, \* self.short_term_update_interval
  points,                     \* the vector collection: point id -> point
  enabled,                    \* VectorStore.enabled
  hash_seed,                  \* the salt of this interpreter's str hashes
  calls,                      \* the callers' invocations (one per Proc)
  tasks,                      \* coroutines run by the loop in the background
  started,                    \* number of invocations started so far
  returned,                   \* the latest return (or exception) to a caller
  accepted                    \* history: snippets accepted per key so far

vars == <<chat_memory, next_id, short_term_cache, short_term_update_interval,
          points, enabled, hash_seed, calls, tasks, started, returned,
          accepted>>

\* ------------------------------------------------------------ small helpers
Min(S) == CHOOSE x \in S : \A y \in S : x <= y
Range(s) == {s[i] : i \in 1..Len(s)}
\* the variant without the cap
LastN_uncapped(s, n) == s
\* s[-n:]
LastN(s, n) == IF Len(s) > n THEN SubSeq(s, Len(s) - n + 1, Len(s)) ELSE s
FirstN(s, n) == IF Len(s) > n THEN SubSeq(s, 1, n) ELSE s
RECURSIVE Join(_, _)
Join(lines, sep) ==
  IF lines = <<>> THEN <<>>
  ELSE IF Len(lines) = 1 THEN lines[1]
  ELSE lines[1] \o sep \o Join(Tail(lines), sep)
RECURSIVE SelectSeqBy(_, _)
SelectSeqBy(s, ok) ==
  IF s = <<>> THEN <<>>
  ELSE (IF ok[s[1]] THEN <<s[1]>> ELSE <<>>) \o SelectSeqBy(Tail(s), ok)

\* f"{user_id}:{robot_id}"
cache_key(u, r) == <<u, r>>
CacheKeys == {cache_key(u, r) : u \in UserIds, r \in CharacterIds}

\* ------------------------------------------------------ table chat_memory
EmptyText == [fmt |-> "empty", entries |-> <<>>]
json_dumps(entries) == [fmt |-> "json", entries |-> entries]
\* json.loads of what json_dumps wrote; the stored text is '' or such a dump
json_loads(txt) == txt.entries

Matching(tbl, u, r) == {row \in tbl : row.user_id = u /\ row.robot_id = r}

\* the variant that never finds the row
get_memory_record_blind(tbl, u, r) == None
get_memory_record(tbl, u, r) ==
  IF Matching(tbl, u, r) = {} THEN None
  ELSE CHOOSE row \in Matching(tbl, u, r) :
         \A o \in Matching(tbl, u, r) : row.id <= o.id

create_memory_record(tbl, id, u, r) ==
  tbl \cup {[id |-> id, user_id |-> u, robot_id |-> r,
             short_term_memory |-> <<>>, long_term_memory |-> EmptyText,
             conversation_count |-> 0]}

update_short_term_memory(tbl, u, r, memory_content, increment) ==
  {IF row \in Matching(tbl, u, r)
     THEN [row EXCEPT !.short_term_memory = memory_content,
                      !.conversation_count = @ + increment]
     ELSE row : row \in tbl}

\* the variant that writes the whole row
update_long_term_memory_whole_row(tbl, u, r, memory_content) ==
  {IF row \in Matching(tbl, u, r)
     THEN [row EXCEPT !.long_term_memory = memory_content,
                      !.short_term_memory = <<>>,
                      !.conversation_count = @ + 1]
     ELSE row : row \in tbl}
update_long_term_memory(tbl, u, r, memory_content) ==
  {IF row \in Matching(tbl, u, r)
     THEN [row EXCEPT !.long_term_memory = memory_content,
                      !.conversation_count = @ + 1]
     ELSE row : row \in tbl}

\* the variant that starts the count again
increment_conversation_count_reset(tbl, u, r) ==
  {IF row \in Matching(tbl, u, r)
     THEN [row EXCEPT !.conversation_count = 1]
     ELSE row : row \in tbl}
increment_conversation_count(tbl, u, r) ==
  {IF row \in Matching(tbl, u, r)
     THEN [row EXCEPT !.conversation_count = @ + 1]
     ELSE row : row \in tbl}

is_memory_enabled(character_id) ==
  IF ~GlobalEnabled THEN FALSE
  ELSE IF EnabledCharacters = <<>> THEN TRUE
  ELSE character_id \in Range(EnabledCharacters)

\* ------------------------------------------------- the accumulator (cache)
EmptyEntry == [memories |-> <<>>, count |-> 0, dialogues |-> <<>>]
\* defaultdict: reading a missing key creates the entry
Touch(cache, k) ==
  IF k \in DOMAIN cache THEN cache
  ELSE [x \in DOMAIN cache \cup {k} |-> IF x = k THEN EmptyEntry ELSE cache[x]]
Entry(cache, k) == IF k \in DOMAIN cache THEN cache[k] ELSE EmptyEntry
Put(cache, k, e) ==
  [x \in DOMAIN cache \cup {k} |-> IF x = k THEN e ELSE cache[x]]
\* the variant that leaves the entry in place
Drop_nothing(cache, k) == cache
Drop(cache, k) == [x \in DOMAIN cache \ {k} |-> cache[x]]

\* ------------------------------------------------------------ LLM replies
\* chat_completion(parse_json=True) returns the parsed JSON value or raises
Raise == [kind |-> "raise"]
NonDict == [kind |-> "list", v |-> <<>>]
Get(d, k, default) == IF k \in DOMAIN d THEN d[k] ELSE default

ClassifierDicts ==
  {[memory_type |-> t, memory_content |-> c, reason |-> "r"] :
     t \in {"none", "short_term", "long_term", "other"}, c \in Contents}
  \cup {[reason |-> "r"]}
ClassifierReplies ==
  {Raise, NonDict} \cup {[kind |-> "dict", v |-> d] : d \in ClassifierDicts}

\* the variant that lets any tag through
validated_memory_type_unchecked(memory_type) == memory_type
\* lines 87-90: a tag outside the closed set becomes "none"
validated_memory_type(memory_type) ==
  IF memory_type \in {"none", "short_term", "long_term"}
    THEN memory_type ELSE "none"

\* MemoryClassifier.classify_memory_type, from the reply of its LLM call on
classify_memory_type(reply) ==
  IF reply.kind = "dict"
    THEN [memory_type |->
            validated_memory_type(Get(reply.v, "memory_type", "none")),
          memory_content |-> Get(reply.v, "memory_content", <<>>),
          reason |-> Get(reply.v, "reason", "")]
    \* the call raised, or result.get raised on a reply that is no dict
    ELSE [memory_type |-> "none", memory_content |-> <<>>,
          reason |-> "failed"]

\* ------------------------------------------------------ coroutine frames
FreeTask ==
  [kind |-> "free", pc |-> "-", user |-> "-", robot |-> "-", awaiter |-> 0,
   content |-> "", memory_id |-> 0, existing |-> <<>>, history |-> <<>>,
   live |-> FALSE, dialogues |-> <<>>]
FreeIds(tk) == {t \in DOMAIN tk : tk[t].kind = "free"}
\* asyncio.create_task / awaiting a coroutine: a new frame, not yet started
Spawn(tk, kind, u, r, content, awaiter) ==
  [tk EXCEPT ![Min(FreeIds(tk))] =
     [FreeTask EXCEPT !.kind = kind, !.pc = "ready", !.user = u, !.robot = r,
                      !.content = content, !.awaiter = awaiter]]
\* cached_dialogues of a suspended summary is a reference to the list object
\* of the cache entry; when the entry gets a new list the frame keeps the old
Detach(tk, k, old) ==
  [t \in DOMAIN tk |->
     IF tk[t].kind = "summary" /\ tk[t].live
          /\ cache_key(tk[t].user, tk[t].robot) = k
       THEN [tk[t] EXCEPT !.live = FALSE, !.dialogues = old]
       ELSE tk[t]]
cached_dialogues(M, t) ==
  IF M.tasks[t].live
    THEN Entry(M.cache, cache_key(M.tasks[t].user, M.tasks[t].robot)).dialogues
    ELSE M.tasks[t].dialogues

\* the state the handlers work on
Mem == [db |-> chat_memory, nid |-> next_id, cache |-> short_term_cache,
        tasks |-> tasks]

\* "[{timestamp}] {m}"
Stamped(m) == <<"[">> \o TodayChars \o <<"]", " ">> \o m
\* f"{existing}\n{new}" when there is existing text, then the trailing cap
Combine(existing, new) ==
  LastN(IF existing # <<>> THEN existing \o <<"\n">> \o new ELSE new,
        ShortTermMaxChars)

\* --------------------------------------- PersistentMemoryService handlers
\* Each takes the state M and the index f of the store call that fails in
\* this run of the handler (0: none fails) and returns the new state, the
\* returned dict and whether it needed a frame.

flush_short_term_cache(M, u, r, k, f) ==
  LET cached_memories == Entry(M.cache, k).memories
      M0 == [M EXCEPT !.cache = Touch(M.cache, k)]
      memory == get_memory_record(M.db, u, r)
      new_text == Join([i \in 1..Len(cached_memories) |->
                          Stamped(cached_memories[i])], <<"\n">>)
      failed == [M |-> M0,
                 result |-> [memory_enabled |-> TRUE, error |-> "exception",
                             message |-> "flush failed"]]
  IN IF cached_memories = <<>>
       THEN [M |-> M0,
             result |-> [memory_enabled |-> TRUE, message |-> "nothing pending"]]
     ELSE IF f = 1 THEN failed
     ELSE IF memory = None
       THEN [M |-> M0, result |-> [error |-> "no record"]]
     ELSE IF f = 2 THEN failed
     ELSE [M |-> [M0 EXCEPT
                    !.db = update_short_term_memory(
                             M.db, u, r,
                             Combine(memory.short_term_memory, new_text),
                             Len(cached_memories)),
                    !.cache = Put(M.cache, k, EmptyEntry),
                    !.tasks = Detach(M.tasks, k, Entry(M.cache, k).dialogues)],
           result |-> [memory_enabled |-> TRUE, memory_type |-> "short_term",
                       cached |-> FALSE, flushed |-> TRUE,
                       flushed_count |-> Len(cached_memories),
                       message |-> "flushed"]]

\* the variant that flushes one snippet late
threshold_reached_late(count, ivl) == count > ivl
\* count >= self.short_term_update_interval (lines 326 and 412)
threshold_reached(count, ivl) == count >= ivl

\* the variant that reports one round too few
remaining_rounds_short(ivl, count) == ivl - count - 1
\* line 427: self.short_term_update_interval - count
remaining_rounds(ivl, count) == ivl - count

handle_short_term_memory(M, ivl, u, r, memory_content, f) ==
  LET k == cache_key(u, r)
      e == Entry(M.cache, k)
      e1 == [e EXCEPT !.memories = Append(@, memory_content),
                      !.count = @ + 1]
      M1 == [M EXCEPT !.cache = Put(M.cache, k, e1)]
  IN IF threshold_reached(e1.count, ivl)
       THEN flush_short_term_cache(M1, u, r, k, f)
       ELSE [M |-> [M1 EXCEPT !.db = IF f = 1 THEN M.db
                                     ELSE increment_conversation_count(M.db, u, r)],
             result |-> [memory_enabled |-> TRUE, memory_type |-> "short_term",
                         cached |-> TRUE,
                         pending_count |-> Len(e1.memories),
                         remaining_rounds |->
                           remaining_rounds(ivl, e1.count),
                         message |-> "cached"]]

\* the reply of the summary LLM call: {"summary": <text>} when well formed;
\* a summary that is no string is formatted by the f-string but cannot be
\* sliced by the log line after the write
SummaryReplies ==
  {Raise, NonDict,
   [kind |-> "dict", v |-> [summary |-> [str |-> TRUE, chars |-> <<"s">>]]],
   [kind |-> "dict", v |-> [summary |-> [str |-> FALSE, chars |-> <<"7">>]]],
   [kind |-> "dict", v |-> [note |-> "x"]]}

Finish(M, t) == [M EXCEPT !.tasks[t] = FreeTask]

\* _generate_short_term_summary up to its LLM call
generate_short_term_summary_start(M, t, f) ==
  LET fr == M.tasks[t]
      k == cache_key(fr.user, fr.robot)
      dlg == Entry(M.cache, k).dialogues
      M0 == [M EXCEPT !.cache = Touch(M.cache, k)]
      memory == get_memory_record(M.db, fr.user, fr.robot)
  IN IF dlg = <<>> THEN Finish(M0, t)
     ELSE IF f = 1 THEN Finish(M0, t)
     ELSE [M0 EXCEPT !.tasks[t] =
             [fr EXCEPT !.kind = "summary", !.pc = "llm", !.live = TRUE,
                        !.history = dlg,
                        !.memory_id = IF memory = None THEN 0 ELSE memory.id,
                        !.existing = IF memory = None THEN <<>>
                                     ELSE memory.short_term_memory]]

\* _generate_short_term_summary from the reply of its LLM call on
generate_short_term_summary_finish(M, t, reply, f) ==
  LET fr == M.tasks[t]
      k == cache_key(fr.user, fr.robot)
      summary == Get(reply.v, "summary",
                     [str |-> TRUE, chars |-> DefaultSummary])
      combined == Combine(fr.existing, Stamped(summary.chars))
      written == update_short_term_memory(M.db, fr.user, fr.robot, combined,
                                          Len(cached_dialogues(M, t)))
      e == Entry(M.cache, k)
  IN IF reply.kind # "dict" THEN Finish(M, t)
     ELSE IF f = 1 THEN Finish(M, t)
     ELSE IF ~summary.str THEN Finish([M EXCEPT !.db = written], t)
     ELSE Finish([M EXCEPT
                    !.db = written,
                    !.cache = Put(M.cache, k,
                                  [e EXCEPT !.dialogues = <<>>, !.count = 0]),
                    !.tasks = Detach(M.tasks, k, e.dialogues)], t)

\* -------------------------------------------------- long-term consolidation
Entries == [time : {Today}, content : Contents]
\* a list item of the consolidation reply: a JSON object or something else;
\* str(...) of a field that is a number or a string
Str(val) == IF val.t = "num" THEN <<ToString(val.n)>> ELSE val.s
Item(time, content) ==
  [kind |-> "dict", v |-> [time |-> [t |-> "str", s |-> time],
                           content |-> [t |-> "str", s |-> content]]]
NumberItem == [kind |-> "dict", v |-> [time |-> [t |-> "str", s |-> Today],
                                       content |-> [t |-> "num", n |-> 7]]]
NoContentItem == [kind |-> "dict", v |-> [time |-> [t |-> "str", s |-> Today]]]
NotObjectItem == [kind |-> "str"]
SixItems == [i \in 1..(MaxLongTermEntries + 1) |-> Item(Today, <<"m", ToString(i)>>)]
\* the reply of the consolidation LLM call
ConsolidationReplies ==
  {Raise, [kind |-> "dict", v |-> [note |-> "x"]]}
  \cup {[kind |-> "list", v |-> l] :
          l \in {<<>>, <<Item(Today, <<"m">>)>>, <<NoContentItem>>,
                 <<Item(Today, <<"m">>), NotObjectItem>>, <<NumberItem>>,
                 SixItems}}
ValidItem(item) ==
  item.kind = "dict" /\ "time" \in DOMAIN item.v /\ "content" \in DOMAIN item.v

\* _summarize_memories from the reply of its LLM call on
summarize_memories(existing_memories, new_memory, reply) ==
  LET validated_memories ==
        SelectSeqBy(reply.v, [x \in Range(reply.v) |-> ValidItem(x)])
  IN IF reply.kind = "list"
       THEN FirstN([i \in 1..Len(validated_memories) |->
                      [time |-> Str(validated_memories[i].v.time),
                       content |-> Str(validated_memories[i].v.content)]],
                   MaxLongTermEntries)
       ELSE LastN(Append(existing_memories, new_memory), MaxLongTermEntries)

\* the variant that takes every record for a missing one
handle_long_term_memory_start_unsaved(M, t, f) ==
  Finish(M, t)
\* _handle_long_term_memory up to the LLM call of _summarize_memories
handle_long_term_memory_start(M, t, f) ==
  LET fr == M.tasks[t]
      memory == get_memory_record(M.db, fr.user, fr.robot)
  IN IF f = 1 THEN Finish(M, t)
     ELSE IF memory = None THEN Finish(M, t)
     ELSE [M EXCEPT !.tasks[t] =
             [fr EXCEPT !.pc = "llm",
                        !.memory_id = memory.id,
                        !.existing =
                           IF memory.long_term_memory.fmt = "empty" THEN <<>>
                           ELSE json_loads(memory.long_term_memory)]]

\* the variant that consolidates onto the text stored at the time of the
\* write
handle_long_term_memory_finish_reread(M, t, reply, f) ==
  LET fr == M.tasks[t]
      memory == get_memory_record(M.db, fr.user, fr.robot)
      stored == IF memory = None THEN <<>>
                ELSE IF memory.long_term_memory.fmt = "empty" THEN <<>>
                ELSE json_loads(memory.long_term_memory)
      updated_memories ==
        LastN(summarize_memories(stored,
                                 [time |-> Today, content |-> fr.content],
                                 reply),
              MaxLongTermEntries)
  IN IF f = 1 THEN Finish(M, t)
     ELSE Finish([M EXCEPT !.db = update_long_term_memory(
                                    M.db, fr.user, fr.robot,
                                    json_dumps(updated_memories))], t)
\* _handle_long_term_memory from the return of _summarize_memories on
handle_long_term_memory_finish(M, t, reply, f) ==
  LET fr == M.tasks[t]
      new_memory_entry == [time |-> Today, content |-> fr.content]
      updated_memories ==
        LastN(summarize_memories(fr.existing, new_memory_entry, reply),
              MaxLongTermEntries)
  IN IF f = 1 THEN Finish(M, t)
     ELSE Finish([M EXCEPT !.db = update_long_term_memory(
                                    M.db, fr.user, fr.robot,
                                    json_dumps(updated_memories))], t)

\* ------------------------------------------- process_conversation_memory
\* up to the await of the classifier: the switches and the record
process_conversation_memory_begin(M, u, c, f) ==
  LET memory == get_memory_record(M.db, u, c)
      failed == [memory_enabled |-> FALSE, error |-> "exception"]
  IN IF ~is_memory_enabled(c)
       THEN [M |-> M, suspended |-> FALSE,
             result |-> [memory_enabled |-> FALSE, memory_type |-> "disabled",
                         message |-> "character not enabled"]]
     ELSE IF u = "guest"
       THEN [M |-> M, suspended |-> FALSE,
             result |-> [memory_enabled |-> FALSE, memory_type |-> "guest",
                         message |-> "guests are not remembered"]]
     ELSE IF f = 1 THEN [M |-> M, suspended |-> FALSE, result |-> failed]
     ELSE IF memory # None THEN [M |-> M, suspended |-> TRUE, result |-> None]
     ELSE IF f = 2 THEN [M |-> M, suspended |-> FALSE, result |-> failed]
     ELSE IF f = 3
       THEN [M |-> [M EXCEPT !.db = create_memory_record(M.db, M.nid, u, c),
                             !.nid = @ + 1],
             suspended |-> FALSE, result |-> failed]
     ELSE [M |-> [M EXCEPT !.db = create_memory_record(M.db, M.nid, u, c),
                           !.nid = @ + 1],
           suspended |-> TRUE, result |-> None]

\* lines 293-301: the tag the router derives from the classifier's dict
memory_type_of(classification) ==
  IF classification.is_long = "yes" THEN "long_term"
  ELSE IF classification.is_long = "no" THEN "none"
  ELSE "none"

\* from the classifier's return on.  raised: an exception leaves the method
\* (classification["is_long"] on a dict without that key is a KeyError);
\* blocked: the model has no free frame for the task the code creates
process_conversation_memory_route(M, ivl, u, c, um, ar, classification, f) ==
  LET k == cache_key(u, c)
      e == Entry(M.cache, k)
      e1 == [e EXCEPT !.dialogues = Append(@, [user |-> um, ai |-> ar]),
                      !.count = @ + 1]
      counted == IF f = 1 THEN M.db
                 ELSE increment_conversation_count(M.db, u, c)
      short == handle_short_term_memory(M, ivl, u, c,
                                        classification.memory_content, f)
      out(M2, res, bl) == [M |-> M2, result |-> res, raised |-> FALSE,
                           blocked |-> bl]
  IN IF ~({"is_long", "memory_content"} \subseteq DOMAIN classification)
       THEN [M |-> M, result |-> None, raised |-> TRUE, blocked |-> FALSE]
     ELSE IF memory_type_of(classification) = "none"
       THEN IF threshold_reached(e1.count, ivl)
              THEN IF FreeIds(M.tasks) = {}
                     THEN out(M, None, TRUE)
                     ELSE out([M EXCEPT !.db = counted,
                                        !.cache = Put(M.cache, k, e1),
                                        !.tasks = Spawn(M.tasks, "summary", u, c,
                                                        "", 0)],
                              [memory_enabled |-> TRUE, memory_type |-> "none",
                               message |-> "nothing to remember"], FALSE)
              ELSE out([M EXCEPT !.db = counted,
                                 !.cache = Put(M.cache, k, e1)],
                       [memory_enabled |-> TRUE, memory_type |-> "none",
                        message |-> "nothing to remember"], FALSE)
     ELSE IF memory_type_of(classification) = "short_term"
       THEN out(short.M, short.result, FALSE)
     ELSE IF FreeIds(M.tasks) = {} THEN out(M, None, TRUE)
     ELSE out([M EXCEPT !.tasks = Spawn(M.tasks, "long_term", u, c,
                                        classification.memory_content, 0)],
              [memory_enabled |-> TRUE, memory_type |-> "long_term",
               updated |-> TRUE, message |-> "updating in the background"],
              FALSE)

\* ------------------------------------------------------------ VectorStore
VectorEnabled == enabled
Scores == {95, 96, 97}
\* what the embedding service and the vector backend do during one call:
\* the search (its embedding, then the backend), the score of the nearest
\* point it finds, and the store (its embedding, then the upsert)
VectorOutcomes ==
  [search : {"ok"}, score : Scores, store : {"ok"}]
  \cup [search : {"ok", "embed", "backend"}, score : {95},
        store : {"ok", "embed", "backend"}]
NoMetadata == [x \in {} |-> x]

\* the variant that takes whatever the embedding call gave
text_to_vector_unchecked(txt, outcome) == <<txt>>
\* _text_to_vector: [] when disabled or when the embedding call fails
text_to_vector(txt, outcome) ==
  IF ~VectorEnabled \/ outcome = "embed" THEN <<>> ELSE <<txt>>

\* hash(combined_text) % 2**63: the hash of a str is salted with a value drawn
\* when the interpreter starts, so the id is a function of the two texts and
\* of that salt
Seeds == {1, 2}
point_id(um, ar) == <<hash_seed, um, ar>>

\* the variant without the user filter
matches_user_any(payload, u) == TRUE
\* query_filter: must user_id = u (lines 150-157)
matches_user(payload, u) == payload.user_id = u

RECURSIVE SetToSeq(_)
SetToSeq(S) ==
  IF S = {} THEN <<>>
  ELSE LET x == CHOOSE y \in S : TRUE IN <<x>> \o SetToSeq(S \ {x})

\* lines 167-177: what a hit carries of its point
conversation_data(score, payload) ==
  [score |-> score,
   user_message |-> payload.user_message,
   ai_response |-> payload.ai_response,
   metadata |-> [k \in DOMAIN payload
                         \ {"user_id", "user_message", "ai_response", "text"}
                   |-> payload[k]]]

search_similar_conversations(pts, u, limit, env) ==
  LET mine == SetToSeq({i \in DOMAIN pts : matches_user(pts[i].payload, u)})
  IN IF ~VectorEnabled THEN <<>>
     ELSE IF text_to_vector("query", env.search) = <<>> THEN <<>>
     ELSE IF env.search = "backend" THEN <<>>
     ELSE FirstN([k \in 1..Len(mine) |->
                    conversation_data(env.score - (k - 1),
                                      pts[mine[k]].payload)], limit)

\* the variant that lets a score of exactly the threshold through
too_similar_strict(similar_conversations) ==
  /\ similar_conversations # <<>>
  /\ similar_conversations[1].score > SimilarityThreshold
\* line 237: similar_conversations and similar_conversations[0]["score"] >= 0.96
too_similar(similar_conversations) ==
  /\ similar_conversations # <<>>
  /\ similar_conversations[1].score >= SimilarityThreshold

store_conversation(pts, u, um, ar, metadata, env) ==
  LET similar_conversations == search_similar_conversations(pts, u, 1, env)
      vector == text_to_vector(<<um, ar>>, env.store)
      payload == metadata @@ [user_id |-> u, user_message |-> um,
                              ai_response |-> ar, text |-> <<um, ar>>]
  IN IF ~VectorEnabled THEN [points |-> pts, saved |-> FALSE]
     ELSE IF too_similar(similar_conversations)
       THEN [points |-> pts, saved |-> FALSE]
     ELSE IF vector = <<>> THEN [points |-> pts, saved |-> FALSE]
     ELSE IF env.store = "backend" THEN [points |-> pts, saved |-> FALSE]
     ELSE [points |-> [i \in DOMAIN pts \cup {point_id(um, ar)} |->
                         IF i = point_id(um, ar)
                           THEN [vector |-> vector, payload |-> payload]
                           ELSE pts[i]],
           saved |-> TRUE]

\* ---------------------------------------------------------- MemoryService
PersistentMemoryConfigured == TRUE

\* save_conversation, step 2: the vector store, after the persistent result
save_vector(pts, results, u, c, um, ar, skip, env) ==
  LET stored == store_conversation(pts, u, um, ar,
                                   [timestamp |-> Today, character_id |-> c],
                                   env)
  IN IF VectorEnabled /\ ~skip
       THEN [points |-> stored.points,
             results |-> [x \in DOMAIN results \cup {"vector_memory"} |->
                            IF x = "vector_memory"
                              THEN [saved |-> stored.saved]
                              ELSE results[x]]]
     ELSE IF skip
       THEN [points |-> pts,
             results |-> [x \in DOMAIN results \cup {"vector_memory"} |->
                            IF x = "vector_memory"
                              THEN [saved |-> FALSE, reason |-> "skipped"]
                              ELSE results[x]]]
     ELSE [points |-> pts, results |-> results]

\* ------------------------------------------------------------ invocations
IdleCall ==
  [op |-> "-", pc |-> "idle", user |-> "-", robot |-> "-",
   user_message |-> "-", ai_response |-> "-", skip |-> FALSE,
   result |-> None]
\* the callers are interchangeable: a new invocation takes the first idle one
Callable(p) ==
  /\ calls[p].pc = "idle"
  /\ \A q \in Procs : calls[q].pc = "idle" => p <= q
  /\ started < MaxCalls
NewCall(op, pc, u, c, um, ar, skip) ==
  [op |-> op, pc |-> pc, user |-> u, robot |-> c, user_message |-> um,
   ai_response |-> ar, skip |-> skip, result |-> None]
\* what a caller gets back: the returned value, or the exception
Return(call, llm, classification, result, raised) ==
  [op |-> call.op, user |-> call.user, robot |-> call.robot,
   user_message |-> call.user_message, ai_response |-> call.ai_response,
   skip |-> call.skip, llm |-> llm, classification |-> classification,
   result |-> result, raised |-> raised]
SetMem(M) ==
  /\ chat_memory' = M.db
  /\ next_id' = M.nid
  /\ short_term_cache' = M.cache
  /\ tasks' = M.tasks

Init ==
  /\ chat_memory = {}
  /\ next_id = 1
  /\ short_term_cache = [k \in {} |-> EmptyEntry]
  /\ short_term_update_interval = DefaultShortTermUpdateInterval
  /\ points = [i \in {} |-> None]
  /\ enabled = TRUE
  /\ hash_seed = 1
  /\ calls = [p \in Procs |-> IdleCall]
  /\ tasks = [t \in TaskIds |-> FreeTask]
  /\ started = 0
  /\ returned = None
  /\ accepted = [k \in CacheKeys |-> 0]

\* store calls a handler makes at most (one of them may be the failing one)
BeginStoreCalls(u, c) ==
  IF ~is_memory_enabled(c) \/ u = "guest" THEN 0
  ELSE IF get_memory_record(chat_memory, u, c) # None THEN 1 ELSE 3
RouteStoreCalls(classification) ==
  IF "is_long" \notin DOMAIN classification THEN 0
  ELSE IF memory_type_of(classification) = "long_term" THEN 0 ELSE 1
NoVector == [search |-> "ok", score |-> 95, store |-> "ok"]
VectorCalls(skip) == IF VectorEnabled /\ ~skip THEN VectorOutcomes ELSE {NoVector}

\* ChatService.process_chat, step 9: await self.memory.save_conversation(...)
\* up to the classifier's LLM call, or to the return when that is not reached
save_conversation_begin(p, u, c, um, ar, skip) ==
  /\ Callable(p)
  /\ started' = started + 1
  /\ UNCHANGED <<short_term_update_interval, enabled, hash_seed, accepted>>
  /\ \E f \in 0..BeginStoreCalls(u, c) :
       LET pm == process_conversation_memory_begin(Mem, u, c, f)
           call == NewCall("save_conversation", "classify", u, c, um, ar, skip)
       IN IF u = "guest"
            THEN /\ returned' = Return(call, None, None,
                                       [saved |-> FALSE, message |-> "guest"],
                                       FALSE)
                 /\ UNCHANGED <<chat_memory, next_id, short_term_cache, tasks,
                                points, calls>>
            ELSE IF pm.suspended
              THEN /\ calls' = [calls EXCEPT ![p] = call]
                   /\ SetMem(pm.M)
                   /\ UNCHANGED <<points, returned>>
              ELSE \E env \in VectorCalls(skip) :
                     LET sv == save_vector(points,
                                           [persistent_memory |-> pm.result],
                                           u, c, um, ar, skip, env)
                     IN /\ returned' = Return(call, None, None, sv.results, FALSE)
                        /\ SetMem(pm.M)
                        /\ points' = sv.points
                        /\ UNCHANGED calls

\* save_conversation from the return of the classifier's LLM call to its end;
\* an exception leaves save_conversation and process_chat, which await it
\* outside any try
save_conversation_classified(p, reply) ==
  LET call == calls[p]
      classification == classify_memory_type(reply)
  IN /\ call.pc = "classify"
     /\ call.op = "save_conversation"
     /\ UNCHANGED <<started, short_term_update_interval, enabled, hash_seed, accepted>>
     /\ calls' = [calls EXCEPT ![p] = IdleCall]
     /\ \E f \in 0..RouteStoreCalls(classification) :
          LET rt == process_conversation_memory_route(
                      Mem, short_term_update_interval, call.user, call.robot,
                      call.user_message, call.ai_response, classification, f)
          IN /\ ~rt.blocked
             /\ SetMem(rt.M)
             /\ IF rt.raised
                  THEN /\ returned' = Return(call, reply, classification, None, TRUE)
                       /\ UNCHANGED points
                  ELSE \E env \in VectorCalls(call.skip) :
                         LET sv == save_vector(
                                     points, [persistent_memory |-> rt.result],
                                     call.user, call.robot, call.user_message,
                                     call.ai_response, call.skip, env)
                         IN /\ returned' = Return(call, reply, classification,
                                                  sv.results, FALSE)
                            /\ points' = sv.points

\* the program as it is wired: turns of the chat pipeline
Next ==
  \/ \E p \in Procs, u \in UserIds, c \in CharacterIds, um \in Messages,
        ar \in Responses, skip \in BOOLEAN :
       save_conversation_begin(p, u, c, um, ar, skip)
  \/ \E p \in Procs, reply \in ClassifierReplies :
       save_conversation_classified(p, reply)

Spec == Init /\ [][Next]_vars

\* ------------------------------------------- claims on the wired program
\* the conversation_count of the key's row
CountOf(tbl, u, c) ==
  IF get_memory_record(tbl, u, c) = None THEN 0
  ELSE get_memory_record(tbl, u, c).conversation_count

\* C1 as the specification states it: save_conversation returns a result to
\* its caller and never raises, whatever the classifier's LLM call, the
\* relational store and the vector service do.
C1_NeverRaises ==
  returned # None => ~returned.raised

\* C5 as the specification states it: the classifier's tag decides the
\* route: after a turn with tag short_term the persistent result is the
\* aggregator's, with tag long_term the consolidator's acknowledgment, with
\* tag none the no-op result.
C5_TagDecidesRoute ==
  (returned # None /\ returned.classification # None)
    => /\ ~returned.raised
       /\ "memory_type" \in DOMAIN returned.result.persistent_memory
       /\ returned.result.persistent_memory.memory_type
            = returned.classification.memory_type

\* C6: classify_memory_type is total.  When its LLM call raises, or the reply
\* is no JSON object, or the tag is outside {none, short_term, long_term},
\* it returns a dict with tag none; a valid tag is returned as it is; the
\* returned dict always has the three keys.
C6_ClassifierTotal ==
  (returned # None /\ returned.llm # None)
    => /\ DOMAIN returned.classification
            = {"memory_type", "memory_content", "reason"}
       /\ returned.classification.memory_type
            \in {"none", "short_term", "long_term"}
       /\ IF returned.llm.kind = "dict"
               /\ "memory_type" \in DOMAIN returned.llm.v
               /\ returned.llm.v.memory_type
                    \in {"none", "short_term", "long_term"}
            THEN returned.classification.memory_type
                   = returned.llm.v.memory_type
            ELSE returned.classification.memory_type = "none"

\* a turn whose classifier reply carried a tag outside the set has ended
C6_Witness_InvalidTag ==
  /\ returned # None
  /\ returned.llm # None
  /\ returned.llm.kind = "dict"
  /\ "memory_type" \in DOMAIN returned.llm.v
  /\ returned.llm.v.memory_type = "other"
  /\ returned.classification.memory_type = "none"

\* C7 as the specification states it: a turn whose classifier LLM call
\* raises or replies with something unparsable increments the key's
\* conversation_count exactly once.
C7_FailedClassifierCountsOnce ==
  [][\A p \in Procs :
       (/\ calls[p].pc = "classify"
        /\ calls'[p].pc = "idle"
        /\ returned'.llm.kind \in {"raise", "list"})
         => CountOf(chat_memory', calls[p].user, calls[p].robot)
              = CountOf(chat_memory, calls[p].user, calls[p].robot) + 1]_vars

\* C10 as the specification states it: for a long_term classification the
\* caller gets the acknowledgment (updated, memory_type long_term) in the
\* step that schedules the consolidation, before the store is written.
C10_AckBeforeWrite ==
  [][\A p \in Procs :
       (/\ calls[p].pc = "classify"
        /\ calls'[p].pc = "idle"
        /\ returned'.classification.memory_type = "long_term")
         => /\ ~returned'.raised
            /\ "updated" \in DOMAIN returned'.result.persistent_memory
            /\ chat_memory' = chat_memory
            /\ \E t \in TaskIds : /\ tasks'[t].kind = "long_term"
                                  /\ tasks'[t].pc = "ready"]_vars

\* --------------------------------- callers of PersistentMemoryService
\* A classifier that answers what the router reads on lines 293-294.
RouterClassifications ==
  [is_long : {"yes", "no", "unsure"}, memory_content : Contents]

InitMethods ==
  /\ chat_memory = {}
  /\ next_id = 1
  /\ short_term_cache = [k \in {} |-> EmptyEntry]
  /\ short_term_update_interval = ConfiguredInterval
  /\ points = [i \in {} |-> None]
  /\ enabled = TRUE
  /\ hash_seed = 1
  /\ calls = [p \in Procs |-> IdleCall]
  /\ tasks = [t \in TaskIds |-> FreeTask]
  /\ started = 0
  /\ returned = None
  /\ accepted = [k \in CacheKeys |-> 0]

\* process_conversation_memory up to the await of the classifier
process_conversation_memory_called(p, u, c, um, ar) ==
  /\ Callable(p)
  /\ started' = started + 1
  /\ UNCHANGED <<short_term_update_interval, enabled, hash_seed, accepted, points>>
  /\ \E f \in 0..BeginStoreCalls(u, c) :
       LET pm == process_conversation_memory_begin(Mem, u, c, f)
           call == NewCall("process_conversation_memory", "classify",
                           u, c, um, ar, FALSE)
       IN /\ SetMem(pm.M)
          /\ IF pm.suspended
               THEN /\ calls' = [calls EXCEPT ![p] = call]
                    /\ UNCHANGED returned
               ELSE /\ returned' = Return(call, None, None, pm.result, FALSE)
                    /\ UNCHANGED calls

\* process_conversation_memory from the classifier's return to its end
process_conversation_memory_classified(p, classification) ==
  LET call == calls[p]
  IN /\ call.pc = "classify"
     /\ call.op = "process_conversation_memory"
     /\ UNCHANGED <<started, short_term_update_interval, enabled, hash_seed,
                    accepted, points>>
     /\ calls' = [calls EXCEPT ![p] = IdleCall]
     /\ \E f \in 0..RouteStoreCalls(classification) :
          LET rt == process_conversation_memory_route(
                      Mem, short_term_update_interval, call.user, call.robot,
                      call.user_message, call.ai_response, classification, f)
          IN /\ ~rt.blocked
             /\ SetMem(rt.M)
             /\ returned' = Return(call, None, classification, rt.result,
                                   rt.raised)

HandleStoreCalls(u, c) ==
  IF threshold_reached(Entry(short_term_cache, cache_key(u, c)).count + 1,
                       short_term_update_interval)
    THEN 2 ELSE 1

\* one run of _handle_short_term_memory, the store failing at call f
handle_short_term_memory_run(u, c, memory_content, f) ==
  LET h == handle_short_term_memory(Mem, short_term_update_interval, u, c,
                                    memory_content, f)
      call == NewCall("_handle_short_term_memory", "-", u, c, "-", "-", FALSE)
  IN /\ SetMem(h.M)
     /\ returned' = Return(call, None, None, h.result, FALSE)
     /\ accepted' = [accepted EXCEPT ![cache_key(u, c)] = @ + 1]
     /\ UNCHANGED <<short_term_update_interval, enabled, hash_seed, points, calls>>

handle_short_term_memory_called(p, u, c, memory_content) ==
  /\ Callable(p)
  /\ started' = started + 1
  /\ \E f \in 0..HandleStoreCalls(u, c) :
       handle_short_term_memory_run(u, c, memory_content, f)

\* the value force_flush_short_term returns: result or {"message": ...}
FlushReturn(result) ==
  IF result = None THEN [message |-> "processed"] ELSE result

\* force_flush_short_term up to the LLM call of the summary it awaits, or to
\* its return when there is no summary to make
force_flush_short_term_called(p, u, c) ==
  LET k == cache_key(u, c)
      call == NewCall("force_flush_short_term", "summary", u, c, "-", "-",
                      FALSE)
      pending == Entry(short_term_cache, k)
  IN /\ Callable(p)
     /\ started' = started + 1
     /\ UNCHANGED <<short_term_update_interval, enabled, hash_seed, accepted, points>>
     /\ IF pending.memories = <<>> /\ pending.dialogues = <<>>
          THEN /\ returned' = Return(call, None, None,
                                     [message |-> "nothing pending"], FALSE)
               /\ UNCHANGED <<chat_memory, next_id, short_term_cache, tasks,
                              calls>>
          ELSE \E f \in 0..(IF pending.memories = <<>> THEN 0 ELSE 2),
                  g \in 0..(IF pending.dialogues = <<>> THEN 0 ELSE 1) :
                 LET fl == IF pending.memories # <<>>
                             THEN flush_short_term_cache(Mem, u, c, k, f)
                             ELSE [M |-> Mem, result |-> None]
                     t == Min(FreeIds(fl.M.tasks))
                     st == generate_short_term_summary_start(
                             [fl.M EXCEPT !.tasks = Spawn(@, "summary", u, c,
                                                          "", p)], t, g)
                 IN IF Entry(fl.M.cache, k).dialogues = <<>>
                      THEN /\ SetMem(fl.M)
                           /\ returned' = Return(call, None, None,
                                                 FlushReturn(fl.result), FALSE)
                           /\ UNCHANGED calls
                      ELSE /\ FreeIds(fl.M.tasks) # {}
                           /\ SetMem(st)
                           /\ IF st.tasks[t].kind = "free"
                                THEN /\ returned' =
                                          Return(call, None, None,
                                                 FlushReturn(fl.result), FALSE)
                                     /\ UNCHANGED calls
                                ELSE /\ calls' =
                                          [calls EXCEPT ![p] =
                                             [call EXCEPT !.result =
                                                FlushReturn(fl.result)]]
                                     /\ UNCHANGED returned

\* clear_memory: DELETE and commit, then the cache entry
clear_memory_called(p, u, c) ==
  LET k == cache_key(u, c)
      call == NewCall("clear_memory", "-", u, c, "-", "-", FALSE)
  IN /\ Callable(p)
     /\ started' = started + 1
     /\ UNCHANGED <<short_term_update_interval, enabled, hash_seed, accepted,
                    points, calls, next_id>>
     /\ \E f \in 0..1 :
          IF f = 1
            THEN /\ returned' = Return(call, None, None, [ok |-> FALSE], FALSE)
                 /\ UNCHANGED <<chat_memory, short_term_cache, tasks>>
            ELSE /\ returned' = Return(call, None, None, [ok |-> TRUE], FALSE)
                 /\ chat_memory' = chat_memory \ Matching(chat_memory, u, c)
                 /\ short_term_cache' = Drop(short_term_cache, k)
                 /\ tasks' = Detach(tasks, k, Entry(short_term_cache, k).dialogues)

get_memory_context(tbl, u, c, f) ==
  IF u = "guest" \/ f = 1 \/ get_memory_record(tbl, u, c) = None
    THEN [short_term |-> <<>>, long_term |-> EmptyText]
    ELSE [short_term |-> get_memory_record(tbl, u, c).short_term_memory,
          long_term |-> get_memory_record(tbl, u, c).long_term_memory]

get_memory_context_called(p, u, c) ==
  /\ Callable(p)
  /\ started' = started + 1
  /\ UNCHANGED <<chat_memory, next_id, short_term_cache, tasks,
                 short_term_update_interval, enabled, hash_seed, accepted,
                 points, calls>>
  /\ \E f \in 0..1 :
       returned' = Return(NewCall("get_memory_context", "-", u, c, "-", "-",
                                  FALSE),
                          None, None, get_memory_context(chat_memory, u, c, f),
                          FALSE)

\* the loop starts a task created by asyncio.create_task
summary_task_start(t) ==
  /\ tasks[t].kind = "summary"
  /\ tasks[t].pc = "ready"
  /\ UNCHANGED <<short_term_update_interval, enabled, hash_seed, accepted,
                 points, calls, started, returned>>
  /\ \E f \in 0..1 : SetMem(generate_short_term_summary_start(Mem, t, f))

\* the summary's LLM call returns; a caller that awaits the summary returns
summary_task_reply(t, reply) ==
  LET awaiter == tasks[t].awaiter
  IN /\ tasks[t].kind = "summary"
     /\ tasks[t].pc = "llm"
     /\ UNCHANGED <<short_term_update_interval, enabled, hash_seed, accepted,
                    points, started>>
     /\ \E f \in 0..(IF reply.kind = "dict" THEN 1 ELSE 0) :
          SetMem(generate_short_term_summary_finish(Mem, t, reply, f))
     /\ IF awaiter = 0
          THEN UNCHANGED <<calls, returned>>
          ELSE /\ calls' = [calls EXCEPT ![awaiter] = IdleCall]
               /\ returned' = Return(calls[awaiter], None, None,
                                     calls[awaiter].result, FALSE)

long_term_task_start(t) ==
  /\ tasks[t].kind = "long_term"
  /\ tasks[t].pc = "ready"
  /\ UNCHANGED <<short_term_update_interval, enabled, hash_seed, accepted,
                 points, calls, started, returned>>
  /\ \E f \in 0..1 : SetMem(handle_long_term_memory_start(Mem, t, f))

long_term_task_reply(t, reply) ==
  /\ tasks[t].kind = "long_term"
  /\ tasks[t].pc = "llm"
  /\ UNCHANGED <<short_term_update_interval, enabled, hash_seed, accepted,
                 points, calls, started, returned>>
  /\ \E f \in 0..1 : SetMem(handle_long_term_memory_finish(Mem, t, reply, f))

\* the service's methods, called by any caller in any order, and the loop
NextMethods ==
  \/ \E p \in Procs, u \in RealUsers, c \in Range(EnabledCharacters),
        um \in Messages, ar \in Responses :
       process_conversation_memory_called(p, u, c, um, ar)
  \/ \E p \in Procs, classification \in RouterClassifications :
       process_conversation_memory_classified(p, classification)
  \/ \E p \in Procs, u \in RealUsers, c \in Range(EnabledCharacters),
        memory_content \in Contents :
       handle_short_term_memory_called(p, u, c, memory_content)
  \/ \E p \in Procs, u \in RealUsers, c \in Range(EnabledCharacters) :
       force_flush_short_term_called(p, u, c)
  \/ \E p \in Procs, u \in RealUsers, c \in Range(EnabledCharacters) :
       clear_memory_called(p, u, c)
  \/ \E p \in Procs, u \in RealUsers, c \in Range(EnabledCharacters) :
       get_memory_context_called(p, u, c)
  \/ \E t \in TaskIds : summary_task_start(t)
  \/ \E t \in TaskIds, reply \in SummaryReplies : summary_task_reply(t, reply)
  \/ \E t \in TaskIds : long_term_task_start(t)
  \/ \E t \in TaskIds, reply \in ConsolidationReplies :
       long_term_task_reply(t, reply)

SpecMethods == InitMethods /\ [][NextMethods]_vars

\* ------------------------------------------ claims on the service's methods
\* the stored short_term_memory of the key's row
TextOf(tbl, u, c) ==
  IF get_memory_record(tbl, u, c) = None THEN <<>>
  ELSE get_memory_record(tbl, u, c).short_term_memory

C8_LongTermCap ==
  \A row \in chat_memory :
    Len(json_loads(row.long_term_memory)) <= MaxLongTermEntries

\* a row whose 5 entries came from a 5-entry list and one new fact: the
\* first consolidation kept 5 of the 6 entries of the reply, the second fell
\* back to existing + new and dropped the oldest
C8_Witness_FullListPlusFact ==
  \E row \in chat_memory :
    /\ Len(json_loads(row.long_term_memory)) = MaxLongTermEntries
    /\ json_loads(row.long_term_memory)[1].content = <<"m", "2">>
    /\ json_loads(row.long_term_memory)[MaxLongTermEntries].content
         \in Contents

\* ------------------------------------------------ the accumulation cycle
\* The key has its row (process_conversation_memory creates it before any
\* snippet is routed) and the store works.
InitAccept ==
  /\ chat_memory = create_memory_record({}, 1, "u1", "c1")
  /\ next_id = 2
  /\ short_term_cache = [k \in {} |-> EmptyEntry]
  /\ short_term_update_interval = DefaultShortTermUpdateInterval
  /\ points = [i \in {} |-> None]
  /\ enabled = TRUE
  /\ hash_seed = 1
  /\ calls = [p \in Procs |-> IdleCall]
  /\ tasks = [t \in TaskIds |-> FreeTask]
  /\ started = 0
  /\ returned = None
  /\ accepted = [k \in CacheKeys |-> 0]

snippet_accepted(u, c, memory_content) ==
  /\ accepted[cache_key(u, c)] < MaxAccepts
  /\ UNCHANGED started
  /\ handle_short_term_memory_run(u, c, memory_content, 0)

NextAccept ==
  \E memory_content \in Contents : snippet_accepted("u1", "c1", memory_content)

SpecAccept == InitAccept /\ [][NextAccept]_vars

\* the number of stamped snippets in a stored text
StoredSnippets(txt) == Cardinality({i \in 1..Len(txt) : txt[i] = "["})

\* C2: with threshold 7 and the store working, after n accepted snippets
\* for the key the flush has written 7 * (n div 7) snippets and the round
\* counter and the pending list hold n mod 7: the 7th snippet flushes once,
\* the 8th starts a new cycle with counter 1.
C2_FlushEverySeventh ==
  LET k == cache_key("u1", "c1")
      n == accepted[k]
  IN /\ Entry(short_term_cache, k).count = n % DefaultShortTermUpdateInterval
     /\ Len(Entry(short_term_cache, k).memories)
          = n % DefaultShortTermUpdateInterval
     /\ StoredSnippets(TextOf(chat_memory, "u1", "c1"))
          = DefaultShortTermUpdateInterval
              * (n \div DefaultShortTermUpdateInterval)

\* the 8th snippet has been accepted: 7 are stored, 1 is pending, counter 1
C2_Witness_EighthSnippet ==
  /\ accepted[cache_key("u1", "c1")] = DefaultShortTermUpdateInterval + 1
  /\ Entry(short_term_cache, cache_key("u1", "c1")).count = 1
  /\ StoredSnippets(TextOf(chat_memory, "u1", "c1"))
       = DefaultShortTermUpdateInterval
  /\ "cached" \in DOMAIN returned.result
  /\ returned.result.pending_count = 1

\* -------------------------------------------------- _summarize_memories
ExistingLists ==
  {<<>>} \cup {<<e>> : e \in Entries}
  \cup {<<e1, e2>> : e1 \in Entries, e2 \in Entries}
  \cup {[i \in 1..MaxLongTermEntries |-> [time |-> Today, content |-> <<"a">>]]}

\* a call of _summarize_memories suspended on its LLM call
InitSummarize ==
  /\ chat_memory = {}
  /\ next_id = 1
  /\ short_term_cache = [k \in {} |-> EmptyEntry]
  /\ short_term_update_interval = DefaultShortTermUpdateInterval
  /\ points = [i \in {} |-> None]
  /\ enabled = TRUE
  /\ hash_seed = 1
  /\ calls = [p \in Procs |-> IdleCall]
  /\ tasks = [t \in TaskIds |-> FreeTask]
  /\ started = 0
  /\ returned \in {[op |-> "_summarize_memories", pc |-> "llm",
                    existing_memories |-> e, new_memory |-> n] :
                     e \in ExistingLists, n \in Entries}
  /\ accepted = [k \in CacheKeys |-> 0]

summarize_memories_returns(reply) ==
  /\ returned.pc = "llm"
  /\ returned' = [op |-> returned.op, pc |-> "done",
                  existing_memories |-> returned.existing_memories,
                  new_memory |-> returned.new_memory,
                  llm |-> reply,
                  result |-> summarize_memories(returned.existing_memories,
                                                returned.new_memory, reply)]
  /\ UNCHANGED <<chat_memory, next_id, short_term_cache,
                 short_term_update_interval, enabled, hash_seed, points,
                 calls, tasks, started, accepted>>

NextSummarize ==
  \E reply \in ConsolidationReplies : summarize_memories_returns(reply)

SpecSummarize == InitSummarize /\ [][NextSummarize]_vars

\* C9 as the specification states it: when the consolidation reply is
\* malformed (the call raises, the reply is no list, or an item of the list
\* is no object with both time and content) _summarize_memories returns the
\* existing entries followed by the new fact, cut to the last 5.
C9_MalformedReplyFallsBack ==
  (/\ returned.pc = "done"
   /\ IF returned.llm.kind = "list"
        THEN \E i \in 1..Len(returned.llm.v) : ~ValidItem(returned.llm.v[i])
        ELSE TRUE)
    => returned.result
         = LastN(Append(returned.existing_memories, returned.new_memory),
                 MaxLongTermEntries)

\* ------------------------------------------------ the vector store alone
\* VectorStore's two public methods, called directly; the store may have come
\* up enabled or disabled (the constructor, lines 14-77).
Limits == {1, 3}
Metadatas == {NoMetadata, [timestamp |-> Today, character_id |-> "c1"]}
InitVector ==
  /\ chat_memory = {}
  /\ next_id = 1
  /\ short_term_cache = [k \in {} |-> EmptyEntry]
  /\ short_term_update_interval = DefaultShortTermUpdateInterval
  /\ points = [i \in {} |-> None]
  /\ enabled \in BOOLEAN
  /\ hash_seed \in Seeds
  /\ calls = [p \in Procs |-> IdleCall]
  /\ tasks = [t \in TaskIds |-> FreeTask]
  /\ started = 0
  /\ returned = None
  /\ accepted = [k \in CacheKeys |-> 0]

\* what a call left behind: its arguments, what the services did, the
\* collection it found, and its return value
VectorReturn(op, u, um, ar, env, result) ==
  [op |-> op, user |-> u, user_message |-> um, ai_response |-> ar,
   env |-> env, index |-> points, result |-> result, raised |-> FALSE]

store_conversation_called(u, um, ar, metadata, env) ==
  LET stored == store_conversation(points, u, um, ar, metadata, env)
  IN /\ started < MaxCalls
     /\ started' = started + 1
     /\ points' = stored.points
     /\ returned' = VectorReturn("store_conversation", u, um, ar, env,
                                 stored.saved)
     /\ UNCHANGED <<chat_memory, next_id, short_term_cache,
                    short_term_update_interval, enabled, hash_seed, calls,
                    tasks, accepted>>

search_similar_conversations_called(u, limit, env) ==
  /\ started < MaxCalls
  /\ started' = started + 1
  /\ returned' = VectorReturn("search_similar_conversations", u, "query",
                              "", env,
                              search_similar_conversations(points, u, limit,
                                                           env))
  /\ UNCHANGED <<chat_memory, next_id, short_term_cache,
                 short_term_update_interval, enabled, hash_seed, points,
                 calls, tasks, accepted>>

\* The service is stopped and started again: a new interpreter with a new
\* salt builds a new VectorStore on the same configuration; the collection
\* lives on the Qdrant server and is kept.
service_restarted(seed) ==
  /\ seed # hash_seed
  /\ hash_seed' = seed
  /\ returned' = None
  /\ UNCHANGED <<chat_memory, next_id, short_term_cache,
                 short_term_update_interval, enabled, points, calls, tasks,
                 started, accepted>>

NextVector ==
  \/ \E u \in RealUsers, um \in Messages, ar \in Responses,
        metadata \in Metadatas, env \in VectorOutcomes :
       store_conversation_called(u, um, ar, metadata, env)
  \/ \E u \in RealUsers, limit \in Limits, env \in VectorOutcomes :
       search_similar_conversations_called(u, limit, env)
  \/ \E seed \in Seeds : service_restarted(seed)

SpecVector == InitVector /\ [][NextVector]_vars

StoreStep == started' # started /\ returned'.op = "store_conversation"
Healthy(env) == env.search = "ok" /\ env.store = "ok"
HasPointOf(pts, u) == \E i \in DOMAIN pts : pts[i].payload.user_id = u

\* C11: with the store enabled and its services answering, a store whose
\* nearest point of the same user scores 0.96 or more returns false and
\* writes nothing; one whose nearest point scores less, or whose user has no
\* point yet, returns true and the point of this exchange is in the
\* collection afterwards.
C11_DedupThreshold ==
  [][StoreStep /\ enabled /\ Healthy(returned'.env)
       => IF HasPointOf(points, returned'.user)
             /\ returned'.env.score >= SimilarityThreshold
            THEN returned'.result = FALSE /\ points' = points
            ELSE /\ returned'.result = TRUE
                 /\ point_id(returned'.user_message, returned'.ai_response)
                      \in DOMAIN points'
                 /\ points'[point_id(returned'.user_message,
                                     returned'.ai_response)].payload.user_id
                      = returned'.user]_vars
\* a store that was skipped because the nearest point scored exactly 0.96
C11_Witness_SkippedAtThreshold ==
  /\ returned # None
  /\ returned.op = "store_conversation"
  /\ enabled
  /\ Healthy(returned.env)
  /\ returned.env.score = SimilarityThreshold
  /\ HasPointOf(returned.index, returned.user)
  /\ returned.result = FALSE

SamePair(p, q) ==
  /\ p.payload.user_message = q.payload.user_message
  /\ p.payload.ai_response = q.payload.ai_response

\* C12: the collection never holds two points for the same (user_message,
\* ai_response) pair: storing a pair again writes over the point the first
\* store made.
C12_OnePointPerPair ==
  \A i, j \in DOMAIN points : SamePair(points[i], points[j]) => i = j

\* C13: a stored point stays in the collection with the payload and the
\* vector it was stored with, whatever store_conversation calls come later.
C13_StoredPointsImmutable ==
  [][\A i \in DOMAIN points : i \in DOMAIN points' /\ points'[i] = points[i]]_vars

SearchReturned ==
  returned # None /\ returned.op = "search_similar_conversations"

\* C14: every exchange search_similar_conversations returns to a user is the
\* exchange of a point of the collection whose payload carries that user's
\* id.
C14_SearchOnlyOwnPoints ==
  SearchReturned
    => \A k \in 1..Len(returned.result) :
         \E i \in DOMAIN returned.index :
           /\ returned.index[i].payload.user_id = returned.user
           /\ returned.index[i].payload.user_message
                = returned.result[k].user_message
           /\ returned.index[i].payload.ai_response
                = returned.result[k].ai_response
\* a search that found something while the collection also held a point of
\* another user
C14_Witness_OtherUsersPointPresent ==
  /\ SearchReturned
  /\ returned.result # <<>>
  /\ \E i \in DOMAIN returned.index :
       returned.index[i].payload.user_id # returned.user

VectorStep == started' # started
SearchFailed(env) == env.search # "ok"
StoreFailed(env) == env.store # "ok"
\* the call returned its empty value and left the collection alone
CameBackEmpty ==
  /\ points' = points
  /\ ~returned'.raised
  /\ IF returned'.op = "store_conversation"
       THEN returned'.result = FALSE
       ELSE returned'.result = <<>>

\* C15: a call on a disabled store, a search whose embedding call or backend
\* search fails, and a store whose embedding call or upsert fails all return
\* the empty value ([] or false) without raising and write no point.
C15_FailedPhaseComesBackEmpty ==
  [][VectorStep
       /\ \/ ~enabled
          \/ returned'.op = "search_similar_conversations"
               /\ SearchFailed(returned'.env)
          \/ returned'.op = "store_conversation"
               /\ StoreFailed(returned'.env)
       => CameBackEmpty]_vars
\* a store on an enabled store whose dedup search went through and whose own
\* embedding call failed
C15_Witness_StoreEmbeddingFailed ==
  /\ returned # None
  /\ returned.op = "store_conversation"
  /\ enabled
  /\ returned.env.search = "ok"
  /\ returned.env.store = "embed"
  /\ returned.result = FALSE
\* C15 as stated: any failure of the embedding call or of the backend during
\* the call, the dedup search of a store included, makes the call return the
\* empty value and write nothing.
C15_AnyFailureComesBackEmpty ==
  [][VectorStep
       /\ \/ ~enabled
          \/ SearchFailed(returned'.env)
               /\ returned'.op = "search_similar_conversations"
          \/ (SearchFailed(returned'.env) \/ StoreFailed(returned'.env))
               /\ returned'.op = "store_conversation"
       => CameBackEmpty]_vars

\* ------------------------------------------------ DialogueQuery (history)
\* rows of SELECT message, text, create_time ... ORDER BY create_time DESC
\* LIMIT 20, as the database returns them
Row(message, txt, create_time) ==
  [message |-> message, text |-> txt, create_time |-> create_time]
RowLists ==
  {<<>>,
   <<Row("q1", "a1", 1)>>,
   <<Row("q2", "a2", 2), Row("q1", "a1", 1)>>,
   <<Row("q2", "", 2), Row("", "a2", 2), Row("", "b2", 2), Row("q1", "", 1)>>}
DefaultNickname == "stranger"
FallbackNickname == "familiar"
Nicknames == {"nick"}

Max(S) == CHOOSE x \in S : \A y \in S : x >= y
RECURSIVE Sorted(_, _)
\* sorted(keys, reverse=reverse)
Sorted(S, reverse) ==
  IF S = {} THEN <<>>
  ELSE LET x == IF reverse THEN Max(S) ELSE Min(S)
       IN <<x>> \o Sorted(S \ {x}, reverse)
\* the variant in which the first non-empty user text wins
UserText_first(rows, t) ==
  LET at == {i \in 1..Len(rows) :
               rows[i].create_time = t /\ rows[i].message # ""}
  IN IF at = {} THEN "" ELSE rows[Min(at)].message
\* lines 141-142: the last non-empty user text of the rows of one timestamp
UserText(rows, t) ==
  LET at == {i \in 1..Len(rows) :
               rows[i].create_time = t /\ rows[i].message # ""}
  IN IF at = {} THEN "" ELSE rows[Max(at)].message
RECURSIVE AssistantText(_, _)
\* lines 143-147: the non-empty assistant texts of one timestamp, joined
\* with a space
AssistantText(rows, t) ==
  IF rows = <<>> THEN ""
  ELSE LET rest == AssistantText(Tail(rows), t)
           mine == IF rows[1].create_time = t THEN rows[1].text ELSE ""
       IN IF mine = "" THEN rest
          ELSE IF rest = "" THEN mine
          ELSE mine \o " " \o rest
Message(role, content) == [role |-> role, content |-> content]
RECURSIVE Turns(_, _)
\* lines 153-157
Turns(rows, keys) ==
  IF keys = <<>> THEN <<>>
  ELSE (IF UserText(rows, keys[1]) # ""
          THEN <<Message("user", UserText(rows, keys[1]))>> ELSE <<>>)
       \o (IF AssistantText(rows, keys[1]) # ""
             THEN <<Message("assistant", AssistantText(rows, keys[1]))>>
             ELSE <<>>)
       \o Turns(rows, Tail(keys))
process_query_results(rows, reverse) ==
  Turns(rows,
        FirstN(Sorted({rows[i].create_time : i \in 1..Len(rows)}, reverse),
               TurnLimit))

\* what the dialogue database does during one read: it answers with rows and
\* a nickname, or every attempt of query_with_retry fails
HistoryReads ==
  [failed : {FALSE}, rows : RowLists, nickname : Nicknames]
  \cup [failed : {TRUE}, rows : {<<>>}, nickname : Nicknames]
History(conversation_history, nickname, raised) ==
  [conversation_history |-> conversation_history, nickname |-> nickname,
   raised |-> raised]
get_user_pillow_dialogue_history(read) ==
  IF read.failed
    THEN History(process_query_results(<<>>, TRUE), DefaultNickname, FALSE)
    ELSE History(process_query_results(read.rows, TRUE), read.nickname, FALSE)
get_user_third_character_dialogue_history(read) ==
  IF read.failed
    THEN History(<<>>, "", TRUE)
    ELSE History(process_query_results(read.rows, FALSE), read.nickname,
                 FALSE)

\* ------------------------------------------ MemoryService, the read path
RecallCharacters == {"default", "c1"}
\* the variant without the try/except of lines 73-86
get_short_term_memory_uncaught(u, c, limit, read) ==
  LET got == IF c = "default" THEN get_user_pillow_dialogue_history(read)
             ELSE get_user_third_character_dialogue_history(read)
  IN IF u = "guest" THEN History(<<>>, FallbackNickname, FALSE)
     ELSE History(FirstN(got.conversation_history, limit), got.nickname,
                  got.raised)
\* the variant that reads the dialogue history of a guest
get_short_term_memory_guest_read(u, c, limit, read) ==
  LET got == IF c = "default" THEN get_user_pillow_dialogue_history(read)
             ELSE get_user_third_character_dialogue_history(read)
  IN IF got.raised THEN History(<<>>, FallbackNickname, FALSE)
     ELSE History(FirstN(got.conversation_history, limit), got.nickname,
                  FALSE)
get_short_term_memory(u, c, limit, read) ==
  LET got == IF c = "default" THEN get_user_pillow_dialogue_history(read)
             ELSE get_user_third_character_dialogue_history(read)
  IN IF u = "guest" THEN History(<<>>, FallbackNickname, FALSE)
     ELSE IF got.raised THEN History(<<>>, FallbackNickname, FALSE)
     ELSE History(FirstN(got.conversation_history, limit), got.nickname,
                  FALSE)

get_persistent_memory(tbl, u, c, f) ==
  IF ~PersistentMemoryConfigured
    THEN [short_term |-> <<>>, long_term |-> EmptyText]
    ELSE get_memory_context(tbl, u, c, f)

RECURSIVE VectorMessages(_)
\* lines 148-153
VectorMessages(similar_conversations) ==
  IF similar_conversations = <<>> THEN <<>>
  ELSE <<Message("user", similar_conversations[1].user_message),
         Message("assistant", similar_conversations[1].ai_response)>>
       \o VectorMessages(Tail(similar_conversations))
get_vector_memory(pts, u, limit, env) ==
  LET similar_conversations == search_similar_conversations(pts, u, limit, env)
  IN IF u = "guest"
       THEN [vector_memory |-> <<>>, should_skip_storage |-> FALSE]
       ELSE [vector_memory |-> VectorMessages(similar_conversations),
             should_skip_storage |-> too_similar(similar_conversations)]

\* the variant that puts the dialogue history first
combined_history_reversed(vector_memory, conversation_history) ==
  conversation_history \o vector_memory
\* line 212: combined_history = vector_memory + conversation_history
combined_history(vector_memory, conversation_history) ==
  vector_memory \o conversation_history

get_combined_memory(tbl, pts, u, c, read, f, env) ==
  LET history == get_short_term_memory(u, c, ConversationHistoryLimit, read)
      persistent_memory == get_persistent_memory(tbl, u, c, f)
      vector == get_vector_memory(pts, u, VectorMemoryLimit, env)
  IN [combined_history |-> combined_history(vector.vector_memory,
                                            history.conversation_history),
      nickname |-> history.nickname,
      persistent_memory |-> persistent_memory,
      skip_vector_storage |-> vector.should_skip_storage,
      raised |-> history.raised]

\* ------------------------------------------------ assembling the context
\* ChatService.process_chat, step 3: await self.memory.get_combined_memory(),
\* on a collection filled by earlier stores and a chat_memory table that may
\* hold the key's row.
RecallTables ==
  {{},
   update_long_term_memory(
     update_short_term_memory(create_memory_record({}, 1, "u1", "c1"),
                              "u1", "c1", <<"s">>, 1),
     "u1", "c1", json_dumps(<<Item(Today, <<"m">>)>>))}
InitRecall ==
  /\ chat_memory \in RecallTables
  /\ next_id = IF chat_memory = {} THEN 1 ELSE 2
  /\ short_term_cache = [k \in {} |-> EmptyEntry]
  /\ short_term_update_interval = DefaultShortTermUpdateInterval
  /\ points = [i \in {} |-> None]
  /\ enabled = TRUE
  /\ hash_seed = 1
  /\ calls = [p \in Procs |-> IdleCall]
  /\ tasks = [t \in TaskIds |-> FreeTask]
  /\ started = 0
  /\ returned = None
  /\ accepted = [k \in CacheKeys |-> 0]

get_combined_memory_called(u, c, read, f, env) ==
  /\ started < MaxCalls
  /\ started' = started + 1
  /\ returned' = [op |-> "get_combined_memory", user |-> u, robot |-> c,
                  read |-> read, f |-> f, env |-> env, index |-> points,
                  result |-> get_combined_memory(chat_memory, points, u, c,
                                                 read, f, env)]
  /\ UNCHANGED <<chat_memory, next_id, short_term_cache,
                 short_term_update_interval, enabled, hash_seed, points,
                 calls, tasks, accepted>>

\* the read path only searches
RecallOutcomes == {env \in VectorOutcomes : env.store = "ok"}
NextRecall ==
  \/ \E u \in RealUsers, um \in Messages, ar \in Responses,
        env \in {NoVector} :
       store_conversation_called(u, um, ar, NoMetadata, env)
  \/ \E u \in UserIds, c \in RecallCharacters, read \in HistoryReads,
        f \in 0..1, env \in RecallOutcomes :
       get_combined_memory_called(u, c, read, f, env)

SpecRecall == InitRecall /\ [][NextRecall]_vars

RecallReturned == returned # None /\ returned.op = "get_combined_memory"
\* the two slices of the call that returned, from what the call was given
VectorSlice ==
  get_vector_memory(returned.index, returned.user, VectorMemoryLimit,
                    returned.env).vector_memory
HistorySlice ==
  get_short_term_memory(returned.user, returned.robot,
                        ConversationHistoryLimit, returned.read)
    .conversation_history
FromVector(message) == message.content \in Messages \cup Responses

\* C16: the sequence get_combined_memory returns is the vector-recall
\* messages followed by the dialogue-history messages: position k holds a
\* recalled message exactly when k is at most the number of recalled
\* messages.
C16_VectorBeforeHistory ==
  RecallReturned
    => /\ returned.result.combined_history = VectorSlice \o HistorySlice
       /\ \A k \in 1..Len(returned.result.combined_history) :
            FromVector(returned.result.combined_history[k])
              <=> k <= Len(VectorSlice)
\* a context with both recalled messages and dialogue history
C16_Witness_BothSlices ==
  /\ RecallReturned
  /\ VectorSlice # <<>>
  /\ HistorySlice # <<>>
  /\ Len(returned.result.combined_history)
       = Len(VectorSlice) + Len(HistorySlice)

HistoryFailed == returned.read.failed
PersistentFailed == returned.f = 1
VectorFailed == SearchFailed(returned.env)
EmptyPersistent == [short_term |-> <<>>, long_term |-> EmptyText]
\* what follows the recalled messages in the returned sequence
ReturnedHistory ==
  SubSeq(returned.result.combined_history,
         Len(returned.result.combined_history) - Len(HistorySlice) + 1,
         Len(returned.result.combined_history))
ReturnedVector ==
  SelectSeq(returned.result.combined_history, FromVector)

\* C17: get_combined_memory returns whatever its three fetches do. A failed
\* dialogue-history read leaves no history message in the result, a failed
\* persistent-memory lookup gives empty short_term and long_term, a failed
\* vector recall gives no recalled message and no skip hint; a slice whose
\* fetch did not fail is what that fetch alone gives, whichever of the other
\* fetches failed.
C17_FailedFetchEmptiesOnlyItsSlice ==
  RecallReturned /\ returned.user # "guest"
    => /\ ~returned.result.raised
       /\ IF HistoryFailed
            THEN \A k \in 1..Len(returned.result.combined_history) :
                   FromVector(returned.result.combined_history[k])
            ELSE ReturnedHistory
                   = FirstN(process_query_results(returned.read.rows,
                                                  returned.robot = "default"),
                            ConversationHistoryLimit)
       /\ IF PersistentFailed
            THEN returned.result.persistent_memory = EmptyPersistent
            ELSE returned.result.persistent_memory
                   = get_memory_context(chat_memory, returned.user,
                                        returned.robot, 0)
       /\ IF VectorFailed
            THEN /\ ReturnedVector = <<>>
                 /\ ~returned.result.skip_vector_storage
            ELSE ReturnedVector
                   = VectorMessages(
                       search_similar_conversations(
                         returned.index, returned.user, VectorMemoryLimit,
                         [NoVector EXCEPT !.score = returned.env.score]))
\* the history read of a third-character persona failed while the key has
\* stored memory and the recall found a point
C17_Witness_HistoryReadFailed ==
  /\ RecallReturned
  /\ HistoryFailed
  /\ returned.robot # "default"
  /\ ~PersistentFailed
  /\ ~VectorFailed
  /\ returned.result.persistent_memory # EmptyPersistent
  /\ ReturnedVector # <<>>
  /\ ~returned.result.raised

\* a call that started and returned in one step, and it was a clear_memory
\* that returned true
ClearStep ==
  /\ started' # started
  /\ calls' = calls
  /\ returned' # None
  /\ returned'.op = "clear_memory"
  /\ returned'.result = [ok |-> TRUE]
RowIds(tbl) == {row.id : row \in tbl}

RemovedOnlyByClear ==
  \A row \in chat_memory :
    row.id \notin RowIds(chat_memory')
      => /\ ClearStep
         /\ returned'.user = row.user_id
         /\ returned'.robot = row.robot_id
CreatedEmptyForNewKey ==
  \A row \in chat_memory' :
    row.id \notin RowIds(chat_memory)
      => /\ Matching(chat_memory, row.user_id, row.robot_id) = {}
         /\ row.short_term_memory = <<>>
         /\ row.long_term_memory = EmptyText
         /\ row.conversation_count = 0
AtMostOneRecord ==
  \A k \in CacheKeys : Cardinality(Matching(chat_memory, k[1], k[2])) <= 1

\* C18: the table never holds two rows for one (user_id, robot_id); a row
\* leaves the table only in a successful clear_memory of its key; a row
\* enters it empty, for a key that had none.
C18_OneRecordPerKey ==
  []AtMostOneRecord /\ [][RemovedOnlyByClear /\ CreatedEmptyForNewKey]_vars
\* two turns of one key are suspended on the classifier at the same time, the
\* first of them having created the key's row
C18_Witness_ConcurrentTurnsOneKey ==
  /\ calls[1].pc # "idle"
  /\ calls[2].pc # "idle"
  /\ calls[1].op = "process_conversation_memory"
  /\ calls[2].op = "process_conversation_memory"
  /\ calls[1].user = calls[2].user
  /\ calls[1].robot = calls[2].robot
  /\ Cardinality(Matching(chat_memory, calls[1].user, calls[1].robot)) = 1
  /\ Cardinality(chat_memory) = 1

OtherRowsKept(u, c) ==
  /\ \A row \in chat_memory :
       ~(row.user_id = u /\ row.robot_id = c) => row \in chat_memory'
  /\ \A row \in chat_memory' : row \in chat_memory
OtherEntriesKept(u, c) ==
  /\ DOMAIN short_term_cache' = DOMAIN short_term_cache \ {cache_key(u, c)}
  /\ \A k \in DOMAIN short_term_cache' :
       short_term_cache'[k] = short_term_cache[k]

\* C19: a clear_memory that returns true leaves its key without a row and
\* without an accumulator entry, and leaves every other key's rows and
\* entries as they were.
C19_ClearRemovesOnlyItsKey ==
  [][ClearStep
       => /\ Matching(chat_memory', returned'.user, returned'.robot) = {}
          /\ cache_key(returned'.user, returned'.robot)
               \notin DOMAIN short_term_cache'
          /\ OtherRowsKept(returned'.user, returned'.robot)
          /\ OtherEntriesKept(returned'.user, returned'.robot)]_vars
\* a clear that came back true for a key that had accepted snippets, while
\* another key still has its row
C19_Witness_ClearedWithOtherKeyPresent ==
  /\ returned # None
  /\ returned.op = "clear_memory"
  /\ returned.result = [ok |-> TRUE]
  /\ accepted[cache_key(returned.user, returned.robot)] > 0
  /\ Matching(chat_memory, returned.user, returned.robot) = {}
  /\ cache_key(returned.user, returned.robot) \notin DOMAIN short_term_cache
  /\ chat_memory # {}

\* next is prev, a newline and a date-stamped text, cut to its last 5000
\* characters (the text alone when prev is empty)
AppendedTo(prev, next) ==
  \E n \in 1..Len(next) :
    /\ next[Len(next) - n + 1] = "["
    /\ next = Combine(prev, SubSeq(next, Len(next) - n + 1, Len(next)))

C21_CountNeverDecreases ==
  [][\A before \in chat_memory : \A after \in chat_memory' :
       after.id = before.id
         => after.conversation_count >= before.conversation_count]_vars
\* a row whose count has been raised by a summary write after other writes
C21_Witness_CountRaisedTwice ==
  /\ returned # None
  /\ returned.op = "force_flush_short_term"
  /\ \E row \in chat_memory :
       /\ row.conversation_count >= 3
       /\ row.short_term_memory # <<>>

\* ------------------------------------------------ the dialogue reader alone
\* DialogueQuery's reads and MemoryService.get_short_term_memory, called with
\* what the dialogue database answers.
RowValues ==
  [message : {"", "hi", "yo"}, text : {"", "hello", "there"},
   create_time : {1, 2}]
\* up to MaxRows rows, in the order of ORDER BY create_time DESC
ShortRowLists ==
  {rows \in UNION {[1..n -> RowValues] : n \in 0..MaxRows} :
     \A i \in 1..(Len(rows) - 1) :
       rows[i].create_time >= rows[i + 1].create_time}
\* n complete turns at the timestamps n, ..., 1
TurnRows(n) ==
  [i \in 1..n |-> Row("q" \o ToString(n + 1 - i), "a" \o ToString(n + 1 - i),
                      n + 1 - i)]
TurnRowLists == {TurnRows(n) : n \in 0..MaxTurns}
TurnReads ==
  [failed : {FALSE}, rows : TurnRowLists, nickname : Nicknames]
  \cup [failed : {TRUE}, rows : {<<>>}, nickname : Nicknames]
ShortTermLimits == {2, ConversationHistoryLimit, 20}

InitHistory ==
  /\ chat_memory = {}
  /\ next_id = 1
  /\ short_term_cache = [k \in {} |-> EmptyEntry]
  /\ short_term_update_interval = DefaultShortTermUpdateInterval
  /\ points = [i \in {} |-> None]
  /\ enabled = TRUE
  /\ hash_seed = 1
  /\ calls = [p \in Procs |-> IdleCall]
  /\ tasks = [t \in TaskIds |-> FreeTask]
  /\ started = 0
  /\ returned = None
  /\ accepted = [k \in CacheKeys |-> 0]

\* one call per behaviour: the reads keep no state
HistoryReturn(op, c, limit, read, reverse, result) ==
  [op |-> op, robot |-> c, limit |-> limit, read |-> read,
   reverse |-> reverse, result |-> result]

process_query_results_called(rows, reverse) ==
  /\ started = 0
  /\ started' = 1
  /\ returned' = HistoryReturn(
                   "_process_query_results", "-", 0,
                   [failed |-> FALSE, rows |-> rows, nickname |-> "-"],
                   reverse,
                   History(process_query_results(rows, reverse), "-", FALSE))
  /\ UNCHANGED <<chat_memory, next_id, short_term_cache,
                 short_term_update_interval, enabled, hash_seed, points,
                 calls, tasks, accepted>>
get_user_pillow_dialogue_history_called(read) ==
  /\ started = 0
  /\ started' = 1
  /\ returned' = HistoryReturn("get_user_pillow_dialogue_history", "default",
                               0, read, TRUE,
                               get_user_pillow_dialogue_history(read))
  /\ UNCHANGED <<chat_memory, next_id, short_term_cache,
                 short_term_update_interval, enabled, hash_seed, points,
                 calls, tasks, accepted>>
get_user_third_character_dialogue_history_called(read) ==
  /\ started = 0
  /\ started' = 1
  /\ returned' = HistoryReturn(
                   "get_user_third_character_dialogue_history", "c1", 0, read,
                   FALSE, get_user_third_character_dialogue_history(read))
  /\ UNCHANGED <<chat_memory, next_id, short_term_cache,
                 short_term_update_interval, enabled, hash_seed, points,
                 calls, tasks, accepted>>
get_short_term_memory_called(c, limit, read) ==
  /\ started = 0
  /\ started' = 1
  /\ returned' = HistoryReturn("get_short_term_memory", c, limit, read,
                               c = "default",
                               get_short_term_memory("u1", c, limit, read))
  /\ UNCHANGED <<chat_memory, next_id, short_term_cache,
                 short_term_update_interval, enabled, hash_seed, points,
                 calls, tasks, accepted>>

NextHistory ==
  \/ \E rows \in ShortRowLists, reverse \in BOOLEAN :
       process_query_results_called(rows, reverse)
  \/ \E read \in TurnReads : get_user_pillow_dialogue_history_called(read)
  \/ \E read \in TurnReads :
       get_user_third_character_dialogue_history_called(read)
  \/ \E c \in RecallCharacters, limit \in ShortTermLimits, read \in TurnReads :
       get_short_term_memory_called(c, limit, read)

SpecHistory == InitHistory /\ [][NextHistory]_vars

ProcessReturned ==
  returned # None /\ returned.op = "_process_query_results"
RowsAt(rows, t) == SelectSeq(rows, LAMBDA row : row.create_time = t)
\* the last row with a user text decides the turn's user text
LastUserText(rows) ==
  LET said == SelectSeq(rows, LAMBDA row : row.message # "")
  IN IF said = <<>> THEN "" ELSE said[Len(said)].message
RECURSIVE SpaceJoined(_)
SpaceJoined(texts) ==
  IF texts = <<>> THEN ""
  ELSE IF Len(texts) = 1 THEN texts[1]
  ELSE SpaceJoined(SubSeq(texts, 1, Len(texts) - 1)) \o " "
       \o texts[Len(texts)]
AssistantTexts(rows) ==
  LET answered == SelectSeq(rows, LAMBDA row : row.text # "")
  IN SpaceJoined([i \in 1..Len(answered) |-> answered[i].text])
ExpectedTurn(rows, t) ==
  (IF LastUserText(RowsAt(rows, t)) # ""
     THEN <<Message("user", LastUserText(RowsAt(rows, t)))>> ELSE <<>>)
  \o (IF AssistantTexts(RowsAt(rows, t)) # ""
        THEN <<Message("assistant", AssistantTexts(RowsAt(rows, t)))>>
        ELSE <<>>)
RECURSIVE ExpectedTurns(_, _)
ExpectedTurns(rows, keys) ==
  IF keys = <<>> THEN <<>>
  ELSE ExpectedTurn(rows, keys[1]) \o ExpectedTurns(rows, Tail(keys))
TimesOf(rows) == {rows[i].create_time : i \in 1..Len(rows)}

\* C22: _process_query_results gives one turn per timestamp; the turn's user
\* message is the last non-empty user text of the timestamp's rows in row
\* order, its assistant message the non-empty assistant texts of those rows
\* joined with one space in row order; rows (hi, ''), ('', hello),
\* ('', there) at one timestamp give user 'hi', assistant 'hello there'.
C22_RowsOfOneTimestampMerged ==
  ProcessReturned
    => /\ returned.result.conversation_history
            = ExpectedTurns(returned.read.rows,
                            Sorted(TimesOf(returned.read.rows),
                                   returned.reverse))
       /\ returned.read.rows = <<Row("hi", "", 1), Row("", "hello", 1),
                                 Row("", "there", 1)>>
            => returned.result.conversation_history
                 = <<Message("user", "hi"),
                     Message("assistant", "hello there")>>
\* three rows of one timestamp with two user texts and two assistant texts
C22_Witness_TwoTextsEach ==
  /\ ProcessReturned
  /\ returned.read.rows = <<Row("hi", "hello", 2), Row("yo", "", 2),
                            Row("", "there", 2)>>
  /\ returned.result.conversation_history
       = <<Message("user", "yo"), Message("assistant", "hello there")>>

ShortTermReturned ==
  /\ returned # None
  /\ returned.op = "get_short_term_memory"
  /\ ~returned.read.failed
\* the timestamps of the min(limit, n) most recent of the n fetched turns
MostRecent(rows, limit) ==
  {t \in TimesOf(rows) :
     Cardinality({o \in TimesOf(rows) : o > t}) < limit}
ContentsOf(messages, role) ==
  {messages[i].content : i \in {j \in 1..Len(messages) :
                                  messages[j].role = role}}

\* C23: the history get_short_term_memory returns with limit L holds exactly
\* the min(L, n) most recent of the n fetched turns, each with its user and
\* its assistant message, for both personas.
C23_MostRecentTurnsKept ==
  ShortTermReturned
    => /\ ContentsOf(returned.result.conversation_history, "user")
            = {"q" \o ToString(t) :
                 t \in MostRecent(returned.read.rows, returned.limit)}
       /\ ContentsOf(returned.result.conversation_history, "assistant")
            = {"a" \o ToString(t) :
                 t \in MostRecent(returned.read.rows, returned.limit)}

\* the timestamp of the turn a history text of RowLists belongs to
TurnOf(content) == IF content \in {"q1", "a1"} THEN 1 ELSE 2

\* C24: the dialogue messages of the context get_combined_memory returns are
\* in chronological order: no message of a newer turn stands before a message
\* of an older turn, and no assistant message before the user message of its
\* turn.
C24_HistoryChronological ==
  RecallReturned
    => \A i, j \in 1..Len(returned.result.combined_history) :
         LET first == returned.result.combined_history[i]
             second == returned.result.combined_history[j]
         IN i < j /\ ~FromVector(first) /\ ~FromVector(second)
              => /\ TurnOf(first.content) <= TurnOf(second.content)
                 /\ TurnOf(first.content) = TurnOf(second.content)
                      => ~(first.role = "assistant" /\ second.role = "user")

ReaderFailed ==
  /\ returned # None
  /\ returned.op \in {"get_user_pillow_dialogue_history",
                      "get_user_third_character_dialogue_history"}
  /\ returned.read.failed

\* C25: when the store keeps failing through the retries, each of the two
\* reads of DialogueQuery returns no turns and the default nickname and
\* raises nothing.
C25_FailedReadReturnsEmpty ==
  ReaderFailed
    => /\ ~returned.result.raised
       /\ returned.result.conversation_history = <<>>
       /\ returned.result.nickname = DefaultNickname

\* ---------------------------------------------------------------------
\* query_with_retry: the tenacity policy that wraps every store query of
\* DialogueQuery and of PersistentMemoryService
\* ---------------------------------------------------------------------
\* how many executions of the store are scripted; the store answers after
\* them
MaxScript == 4
\* stop_after_attempt(3)
MaxAttempts == 3
\* what one execution of query_func does: it returns, or it raises
\* sqlalchemy's OperationalError or DBAPIError, or some other exception
QueryOutcomes ==
  {"ok", "OperationalError", "DBAPIError", "InvalidRequestError"}
Scripts == [1..MaxScript -> QueryOutcomes]
SteadyScripts == {[n \in 1..MaxScript |-> o] : o \in QueryOutcomes}
Execute(script, at) == IF at <= MaxScript THEN script[at] ELSE "ok"

retry_if_exception_type(exception) ==
  exception \in {"OperationalError", "DBAPIError"}
stop_after_attempt_late(attempt_number) == attempt_number >= MaxAttempts + 1
stop_after_attempt(attempt_number) == attempt_number >= MaxAttempts

RECURSIVE query_with_retry_attempt(_, _, _)
\* the attempt_number-th execution of query_func, which is the at-th
\* execution of the store; tenacity raises RetryError when it stops
query_with_retry_attempt(script, at, attempt_number) ==
  IF Execute(script, at) = "ok"
    THEN [attempts |-> attempt_number, outcome |-> "ok"]
  ELSE IF ~retry_if_exception_type(Execute(script, at))
    THEN [attempts |-> attempt_number, outcome |-> Execute(script, at)]
  ELSE IF stop_after_attempt(attempt_number)
    THEN [attempts |-> attempt_number, outcome |-> "RetryError"]
  ELSE query_with_retry_attempt(script, at + 1, attempt_number + 1)
query_with_retry(script, at) == query_with_retry_attempt(script, at, 1)

\* DialogueQuery, lines 113-115 and 126-128: the history query, then the
\* nickname query; the first one that raises ends the read
query_dialogue(script, rows, nickname) ==
  LET results == query_with_retry(script, 1)
      name == query_with_retry(script, results.attempts + 1)
  IN IF results.outcome # "ok"
       THEN [failed |-> TRUE, rows |-> <<>>, nickname |-> nickname]
     ELSE IF name.outcome # "ok"
       THEN [failed |-> TRUE, rows |-> <<>>, nickname |-> nickname]
     ELSE [failed |-> FALSE, rows |-> rows, nickname |-> nickname]
\* PersistentMemoryService.get_memory_context, line 866: its one query
query_memory_record(script) ==
  IF query_with_retry(script, 1).outcome = "ok" THEN 0 ELSE 1

InitRetry ==
  /\ chat_memory \in RecallTables
  /\ next_id = IF chat_memory = {} THEN 1 ELSE 2
  /\ short_term_cache = [k \in {} |-> EmptyEntry]
  /\ short_term_update_interval = DefaultShortTermUpdateInterval
  /\ points = [i \in {} |-> None]
  /\ enabled = TRUE
  /\ hash_seed = 1
  /\ calls = [p \in Procs |-> IdleCall]
  /\ tasks = [t \in TaskIds |-> FreeTask]
  /\ started = 0
  /\ returned = None
  /\ accepted = [k \in CacheKeys |-> 0]

query_with_retry_called(script) ==
  /\ started = 0
  /\ started' = 1
  /\ returned' = [op |-> "query_with_retry", script |-> script,
                  result |-> query_with_retry(script, 1)]
  /\ UNCHANGED <<chat_memory, next_id, short_term_cache,
                 short_term_update_interval, enabled, hash_seed, points,
                 calls, tasks, accepted>>

\* ChatService.process_chat, step 3, with the store misbehaving under both
\* services
get_combined_memory_retried(c, script, memory_script) ==
  /\ started = 0
  /\ started' = 1
  /\ returned' = [op |-> "get_combined_memory", robot |-> c,
                  script |-> script, memory_script |-> memory_script,
                  read |-> query_dialogue(script, TurnRows(2), "nick"),
                  result |-> get_combined_memory(
                               chat_memory, points, "u1", c,
                               query_dialogue(script, TurnRows(2), "nick"),
                               query_memory_record(memory_script), NoVector)]
  /\ UNCHANGED <<chat_memory, next_id, short_term_cache,
                 short_term_update_interval, enabled, hash_seed, points,
                 calls, tasks, accepted>>

NextRetry ==
  \/ \E script \in Scripts : query_with_retry_called(script)
  \/ \E c \in RecallCharacters, script \in Scripts,
        memory_script \in SteadyScripts :
       get_combined_memory_retried(c, script, memory_script)

SpecRetry == InitRetry /\ [][NextRetry]_vars

RetryReturned == returned # None /\ returned.op = "query_with_retry"
RetriedMemory == returned # None /\ returned.op = "get_combined_memory"
NoPersistentMemory == [short_term |-> <<>>, long_term |-> EmptyText]

\* C26: query_with_retry executes the query at most three times, each
\* execution but the first follows an OperationalError or a DBAPIError of
\* the one before, and a failure left after the last attempt comes out of
\* the memory operations as an empty slice, never as an exception.
C26_BoundedRetryThenDegrade ==
  /\ RetryReturned
       => /\ returned.result.attempts \in 1..MaxAttempts
          /\ \A n \in 1..(returned.result.attempts - 1) :
               returned.script[n] \in {"OperationalError", "DBAPIError"}
          /\ returned.result.outcome = "ok"
               <=> returned.script[returned.result.attempts] = "ok"
  /\ RetriedMemory
       => /\ ~returned.result.raised
          /\ returned.read.failed
               => returned.result.combined_history = <<>>
          /\ returned.memory_script[1] # "ok"
               => returned.result.persistent_memory = NoPersistentMemory

C26_Witness_ThirdAttemptFailed ==
  /\ RetryReturned
  /\ returned.result.attempts = MaxAttempts
  /\ returned.result.outcome = "RetryError"
  /\ returned.script[MaxScript] = "ok"

\* ---------------------------------------------------------------------
\* LLMService.chat_completion: one invocation, request by request
\* ---------------------------------------------------------------------
\* config.yaml names models a, b and c; x is not configured
ConfiguredModels == {"a", "b", "c"}
NoModel == ""
ModelNames == {NoModel, "a", "x"}
ModelPools ==
  {<<>>, <<"a">>, <<"a", "b">>, <<"a", "a">>, <<"x", "a">>, <<"a", "b", "c">>}
Fallbacks == {None, [content |-> "sorry"]}
\* what comes back for one request: a 200 whose content is JSON, a 200
\* whose content is not, a 200 whose body lacks the content, another
\* status, or an exception of the HTTP session
Replies == {"json", "text", "malformed", "non200", "exception"}

\* lines 169-173: the given model, else random.choice(model_pool), else
\* nothing to call
ModelChoices(model_name, model_pool) ==
  IF model_name # NoModel THEN {model_name}
  ELSE IF model_pool # <<>> THEN Range(model_pool)
  ELSE {NoModel}
\* lines 223 and 260
new_pool(frame) ==
  SelectSeq(frame.model_pool, LAMBDA m : m # frame.model_name)
\* lines 224-233 and 262-271: the arguments of the recursive call
retry_call_again(frame) ==
  [model_pool |-> frame.model_pool, retry_on_error |-> TRUE]
retry_call(frame) ==
  [model_pool |-> new_pool(frame), retry_on_error |-> FALSE]

LLMFinish(call, kind) == [call EXCEPT !.pc = "done", !.result = kind]
\* lines 281-285, and 178-181: except ... fallback_response or raise; an
\* exception that leaves the recursive call passes the same handler of the
\* calling frame
handle_exception(call) ==
  LLMFinish(call, IF call.fallback_response # None THEN "fallback"
                  ELSE "raised")
\* lines 169-211: select the model, get its config, send the request
begin_frame(call, model_name, args) ==
  IF model_name = NoModel
    THEN IF call.frames = <<>> THEN LLMFinish(call, "raised")
         ELSE handle_exception(call)
  ELSE IF model_name \notin ConfiguredModels THEN handle_exception(call)
  ELSE [call EXCEPT !.pc = "awaiting", !.requests = @ + 1,
                    !.frames = Append(@, [model_name |-> model_name,
                                          model_pool |-> args.model_pool,
                                          retry_on_error |->
                                            args.retry_on_error])]
CurrentFrame(call) == call.frames[Len(call.frames)]
\* lines 221, 259-261: whether this reply makes the frame call itself
Retries(call, reply) ==
  LET frame == CurrentFrame(call)
  IN IF reply = "non200"
       THEN frame.retry_on_error /\ Len(frame.model_pool) > 1
     ELSE IF reply = "text" /\ call.parse_json
       THEN frame.retry_on_error /\ frame.model_pool # <<>>
            /\ new_pool(frame) # <<>>
     ELSE FALSE
RetryChoices(call, reply) ==
  IF Retries(call, reply)
    THEN ModelChoices(NoModel, retry_call(CurrentFrame(call)).model_pool)
    ELSE {NoModel}
\* lines 213-285
on_reply(call, reply, choice) ==
  IF Retries(call, reply)
    THEN begin_frame(call, choice, retry_call(CurrentFrame(call)))
  ELSE IF reply \in {"non200", "exception", "malformed"}
    THEN handle_exception(call)
  ELSE IF ~call.parse_json THEN LLMFinish(call, "content")
  ELSE IF reply = "json" THEN LLMFinish(call, "parsed")
  ELSE handle_exception(call)

LLMReturn(call) ==
  [op |-> "chat_completion", requests |-> call.requests,
   frames |-> call.frames, parse_json |-> call.parse_json,
   fallback_response |-> call.fallback_response, result |-> call.result]
LLMStep(p, call) ==
  IF call.pc = "done"
    THEN calls' = [calls EXCEPT ![p] = IdleCall] /\ returned' = LLMReturn(call)
    ELSE calls' = [calls EXCEPT ![p] = call] /\ returned' = returned

InitLLM ==
  /\ chat_memory = {}
  /\ next_id = 1
  /\ short_term_cache = [k \in {} |-> EmptyEntry]
  /\ short_term_update_interval = DefaultShortTermUpdateInterval
  /\ points = [i \in {} |-> None]
  /\ enabled = TRUE
  /\ hash_seed = 1
  /\ calls = [p \in Procs |-> IdleCall]
  /\ tasks = [t \in TaskIds |-> FreeTask]
  /\ started = 0
  /\ returned = None
  /\ accepted = [k \in CacheKeys |-> 0]

chat_completion_called(p, model_name, model_pool, parse_json, retry_on_error, fallback_response) ==
  /\ started = 0
  /\ Callable(p)
  /\ started' = 1
  /\ \E choice \in ModelChoices(model_name, model_pool) :
       LLMStep(p, begin_frame([op |-> "chat_completion", pc |-> "entered",
                               frames |-> <<>>, requests |-> 0,
                               parse_json |-> parse_json,
                               fallback_response |-> fallback_response,
                               result |-> "-"],
                              choice,
                              [model_pool |-> model_pool,
                               retry_on_error |-> retry_on_error]))
  /\ UNCHANGED <<chat_memory, next_id, short_term_cache,
                 short_term_update_interval, enabled, hash_seed, points,
                 tasks, accepted>>

llm_replied(p, reply) ==
  /\ calls[p].pc = "awaiting"
  /\ \E choice \in RetryChoices(calls[p], reply) :
       LLMStep(p, on_reply(calls[p], reply, choice))
  /\ UNCHANGED <<chat_memory, next_id, short_term_cache,
                 short_term_update_interval, enabled, hash_seed, points,
                 tasks, accepted, started>>

LLMReplies == \E p \in Procs, reply \in Replies : llm_replied(p, reply)
NextLLM ==
  \/ \E p \in Procs, model_name \in ModelNames, model_pool \in ModelPools,
        parse_json \in BOOLEAN, retry_on_error \in BOOLEAN,
        fallback_response \in Fallbacks :
       chat_completion_called(p, model_name, model_pool, parse_json,
                              retry_on_error, fallback_response)
  \/ LLMReplies

\* every request sent is answered
SpecLLM == InitLLM /\ [][NextLLM]_vars /\ WF_vars(LLMReplies)

Awaiting(p) == calls[p].pc = "awaiting"
LLMReturned == returned # None /\ returned.op = "chat_completion"
RetriedOnce(call) ==
  /\ Len(call.frames) <= 2
  /\ call.requests <= 2
  /\ Len(call.frames) = 2
       => /\ ~call.frames[2].retry_on_error
          /\ \A n \in 1..Len(call.frames[2].model_pool) :
               call.frames[2].model_pool[n] # call.frames[1].model_name
AtMostTwoRequests ==
  /\ \A p \in Procs : Awaiting(p) => RetriedOnce(calls[p])
  /\ LLMReturned
       => /\ RetriedOnce(returned)
          /\ returned.result \in {"parsed", "content", "fallback", "raised"}

\* C27: whatever the replies are, an invocation of chat_completion ends; it
\* calls itself at most once, then with retry_on_error off and without the
\* model that failed, so that it sends at most two requests before it
\* returns a result or the fallback, or raises.
C27_ChatCompletionTerminates ==
  /\ []AtMostTwoRequests
  /\ \A p \in Procs : Awaiting(p) ~> LLMReturned

C27_Witness_SecondRequestFailed ==
  /\ LLMReturned
  /\ returned.requests = 2
  /\ returned.result = "fallback"

\* ---------------------------------------------------------------------
\* ChatService.process_chat: one turn of the chat pipeline, await by await
\* ---------------------------------------------------------------------
MaxChats == 2
\* request.message: plain text, text the content filter flags, only emojis
ChatMessages == {"hi", "flagged", "emoji"}
\* responses.yaml
ErrorResponses == {"sorry", "busy"}
SensitiveResponses == {"no"}
NoAnswer == ""
\* what self.llm.chat_completion comes back with: a dict with or without
\* the answer key, the fallback ({"content": ...}), or an exception
ChatLLMResults ==
  [kind : {"parsed"}, answer : Responses \cup {NoAnswer}]
  \cup [kind : {"fallback", "raised"}, answer : {NoAnswer}]
ChatReads ==
  {[failed |-> TRUE, rows |-> <<>>, nickname |-> "nick"],
   [failed |-> FALSE, rows |-> TurnRows(1), nickname |-> "nick"]}

ChatResponse(u, llm_message) == [user_id |-> u, llm_message |-> llm_message]
\* what the caller of process_chat gets: the response or the exception,
\* with how often memory.save_conversation was awaited before and what was
\* added to background_tasks
ChatReturn(call, llm, response, error, saves) ==
  [op |-> "process_chat", user |-> call.user, robot |-> call.robot,
   user_message |-> call.user_message, background_tasks |-> call.ai_response,
   llm |-> llm, response |-> response, raised |-> error # "",
   error |-> error, save_conversation_calls |-> saves, registered |-> <<>>]
\* line 86: def process_chat(self, request)
process_chat_accepts(background_tasks) == background_tasks = "-"
\* line 241 and line 249
AnswersOf(result) ==
  IF result.kind = "parsed" /\ result.answer # NoAnswer THEN {result.answer}
  ELSE ErrorResponses
\* utils.py line 161, def split_message(message, count, is_voice=False),
\* called at line 259 with user_message=...
split_message_accepts_user_message == FALSE

InitChat ==
  /\ chat_memory = {}
  /\ next_id = 1
  /\ short_term_cache = [k \in {} |-> EmptyEntry]
  /\ short_term_update_interval = DefaultShortTermUpdateInterval
  /\ points = [i \in {} |-> None]
  /\ enabled = TRUE
  /\ hash_seed = 1
  /\ calls = [p \in Procs |-> IdleCall]
  /\ tasks = [t \in TaskIds |-> FreeTask]
  /\ started = 0
  /\ returned = None
  /\ accepted = [k \in CacheKeys |-> 0]

\* lines 86-228: up to the main LLM call, or to an earlier return
process_chat_called(p, u, c, message, voice, background_tasks) ==
  /\ Callable(p)
  /\ started < MaxChats
  /\ started' = started + 1
  /\ UNCHANGED <<chat_memory, next_id, short_term_cache, tasks, points,
                 short_term_update_interval, enabled, hash_seed, accepted>>
  /\ \E quick \in IF ~voice /\ message = "emoji" THEN BOOLEAN ELSE {FALSE},
        read \in ChatReads :
       LET memory == get_combined_memory(chat_memory, points, u, c, read, 0,
                                         NoVector)
           skip == IF memory.raised THEN FALSE
                   ELSE memory.skip_vector_storage
           call == NewCall("process_chat", "llm", u, c, message,
                           background_tasks, skip)
       IN IF ~process_chat_accepts(background_tasks)
            THEN /\ returned' = ChatReturn(call, "-", None, "TypeError", 0)
                 /\ UNCHANGED calls
          ELSE IF message = "flagged"
            THEN /\ \E answer \in SensitiveResponses :
                      returned' = ChatReturn(call, "-",
                                             ChatResponse(u, <<answer>>), "", 0)
                 /\ UNCHANGED calls
          ELSE IF quick
            THEN /\ returned' = ChatReturn(call, "-",
                                           ChatResponse(u, <<"emoji">>), "", 0)
                 /\ UNCHANGED calls
          ELSE /\ calls' = [calls EXCEPT ![p] = call]
               /\ UNCHANGED returned

\* lines 228-300: from the return of the main LLM call to the classifier's
\* LLM call inside the awaited save_conversation, or to the end
process_chat_answered(p, result) ==
  /\ calls[p].op = "process_chat"
  /\ calls[p].pc = "llm"
  /\ UNCHANGED <<started, short_term_update_interval, enabled, hash_seed,
                 accepted>>
  /\ \E answer \in AnswersOf(result),
        f \in 0..BeginStoreCalls(calls[p].user, calls[p].robot) :
       LET u == calls[p].user
           c == calls[p].robot
           response == ChatResponse(u, <<answer>>)
           pm == process_conversation_memory_begin(Mem, u, c, f)
           call == [calls[p] EXCEPT !.pc = "classify", !.ai_response = answer,
                                    !.result = [llm |-> result.kind,
                                                response |-> response]]
       IN IF answer \notin ErrorResponses
               /\ ~split_message_accepts_user_message
            THEN /\ returned' = ChatReturn(calls[p], result.kind, None,
                                           "TypeError", 0)
                 /\ calls' = [calls EXCEPT ![p] = IdleCall]
                 /\ UNCHANGED <<chat_memory, next_id, short_term_cache, tasks,
                                points>>
          ELSE IF u = "guest"
            THEN /\ returned' = ChatReturn(calls[p], result.kind, response,
                                           "", 1)
                 /\ calls' = [calls EXCEPT ![p] = IdleCall]
                 /\ UNCHANGED <<chat_memory, next_id, short_term_cache, tasks,
                                points>>
          ELSE IF pm.suspended
            THEN /\ calls' = [calls EXCEPT ![p] = call]
                 /\ SetMem(pm.M)
                 /\ UNCHANGED <<points, returned>>
          ELSE \E env \in VectorCalls(calls[p].skip) :
                 /\ returned' = ChatReturn(calls[p], result.kind, response,
                                           "", 1)
                 /\ calls' = [calls EXCEPT ![p] = IdleCall]
                 /\ SetMem(pm.M)
                 /\ points' = save_vector(points,
                                          [persistent_memory |-> pm.result],
                                          u, c, calls[p].user_message, answer,
                                          calls[p].skip, env).points

\* lines 290-317: the rest of the awaited save_conversation, then the
\* return; an exception of save_conversation leaves process_chat
process_chat_classified(p, reply) ==
  LET call == calls[p]
      classification == classify_memory_type(reply)
  IN /\ call.op = "process_chat"
     /\ call.pc = "classify"
     /\ UNCHANGED <<started, short_term_update_interval, enabled, hash_seed,
                    accepted>>
     /\ calls' = [calls EXCEPT ![p] = IdleCall]
     /\ \E f \in 0..RouteStoreCalls(classification) :
          LET rt == process_conversation_memory_route(
                      Mem, short_term_update_interval, call.user, call.robot,
                      call.user_message, call.ai_response, classification, f)
              sent == [call EXCEPT !.ai_response = "-"]
          IN /\ ~rt.blocked
             /\ SetMem(rt.M)
             /\ IF rt.raised
                  THEN /\ returned' = ChatReturn(sent, call.result.llm, None,
                                                 "KeyError", 1)
                       /\ UNCHANGED points
                  ELSE \E env \in VectorCalls(call.skip) :
                         /\ returned' = ChatReturn(sent, call.result.llm,
                                                   call.result.response, "", 1)
                         /\ points' = save_vector(
                                        points,
                                        [persistent_memory |-> rt.result],
                                        call.user, call.robot,
                                        call.user_message, call.ai_response,
                                        call.skip, env).points

NextChat ==
  \/ \E p \in Procs, u \in UserIds, c \in CharacterIds,
        message \in ChatMessages, voice \in BOOLEAN,
        background_tasks \in {"-", "given"} :
       process_chat_called(p, u, c, message, voice, background_tasks)
  \/ \E p \in Procs, result \in ChatLLMResults : process_chat_answered(p, result)
  \/ \E p \in Procs, reply \in ClassifierReplies :
       process_chat_classified(p, reply)

SpecChat == InitChat /\ [][NextChat]_vars

ChatReturned == returned # None /\ returned.op = "process_chat"

\* C28: process_chat called with a background_tasks collection returns the
\* reply without awaiting memory.save_conversation itself, the save being
\* registered as exactly one background task.
C28_SaveRunsInBackground ==
  (ChatReturned /\ returned.background_tasks = "given")
    => /\ ~returned.raised
       /\ returned.save_conversation_calls = 0
       /\ Len(returned.registered) = 1

\* C29: when the main LLM call raises, process_chat raises nothing and
\* returns a response whose one message is an error response, whole.
C29_LLMFailureGivesErrorResponse ==
  (ChatReturned /\ returned.llm = "raised")
    => /\ ~returned.raised
       /\ \E e \in ErrorResponses : returned.response.llm_message = <<e>>

\* ------------------------------ concurrent consolidations of one key
\* the entries a row's long_term_memory holds
StoredEntries(row) ==
  IF row.long_term_memory.fmt = "empty" THEN <<>>
  ELSE json_loads(row.long_term_memory)
Consolidating(t) == tasks[t].kind = "long_term" /\ tasks[t].pc = "llm"
\* task t read the row before the row's present text was written
StaleSnapshot(t, row) ==
  /\ Consolidating(t)
  /\ row.user_id = tasks[t].user
  /\ row.robot_id = tasks[t].robot
  /\ StoredEntries(row) # tasks[t].existing
\* what task t can write, given what it read before its LLM call
BuiltFromSnapshot(t) ==
  {json_dumps(LastN(summarize_memories(
                      tasks[t].existing,
                      [time |-> Today, content |-> tasks[t].content], reply),
                    MaxLongTermEntries)) : reply \in ConsolidationReplies}
OverwritesFromSnapshot(t) ==
  \A before \in chat_memory : \A after \in chat_memory' :
    (/\ StaleSnapshot(t, before)
     /\ tasks'[t] = FreeTask
     /\ after.id = before.id
     /\ after.long_term_memory # before.long_term_memory)
      => after.long_term_memory \in BuiltFromSnapshot(t)

Summarizing(t) == tasks[t].kind = "summary" /\ tasks[t].pc = "llm"
KeyOf(t) == cache_key(tasks[t].user, tasks[t].robot)

AcceptCached ==
  /\ returned' # None
  /\ \/ /\ started' # started
        /\ calls' = calls
        /\ returned'.op = "_handle_short_term_memory"
     \/ \E p \in Procs : /\ calls[p].pc = "classify"
                         /\ calls'[p].pc = "idle"
                         /\ returned'.op = "process_conversation_memory"
  /\ "cached" \in DOMAIN returned'.result
  /\ returned'.result.cached
AcceptedKey == cache_key(returned'.user, returned'.robot)
TextsKept ==
  /\ RowIds(chat_memory') = RowIds(chat_memory)
  /\ \A before \in chat_memory : \A after \in chat_memory' :
       after.id = before.id
         => /\ after.short_term_memory = before.short_term_memory
            /\ after.long_term_memory = before.long_term_memory
            /\ (before.user_id # returned'.user
                \/ before.robot_id # returned'.robot) => after = before
RemainingRoundsReported ==
  /\ Entry(short_term_cache', AcceptedKey).count
       = Entry(short_term_cache, AcceptedKey).count + 1
  /\ Entry(short_term_cache', AcceptedKey).count < short_term_update_interval
  /\ returned'.result.remaining_rounds
       = short_term_update_interval
           - Entry(short_term_cache', AcceptedKey).count
CountedBy(amounts) ==
  \A before \in chat_memory : \A after \in chat_memory' :
    (after.id = before.id /\ before.user_id = returned'.user
       /\ before.robot_id = returned'.robot)
      => after.conversation_count - before.conversation_count \in amounts

\* C32 as the specification states it: an accept that leaves the round
\* counter below the threshold adds exactly 1 to the conversation_count of
\* the key's row, changes neither text and reports threshold minus counter
\* as remaining_rounds.
C32_AcceptCountsOne ==
  [][AcceptCached
       => /\ Matching(chat_memory, returned'.user, returned'.robot) # {}
          /\ CountedBy({1})
          /\ TextsKept
          /\ RemainingRoundsReported]_vars

\* C32, amended: such an accept changes neither text of any row and no
\* other row, reports threshold minus counter as remaining_rounds, and adds
\* 1 to the conversation_count of the key's row, or nothing when the UPDATE
\* fails or the key has no row.
C32_AcceptCountsAtMostOne ==
  [][AcceptCached
       => CountedBy({0, 1}) /\ TextsKept /\ RemainingRoundsReported]_vars

\* an accept below the threshold has returned and the key's row is counted
C32_Witness_CachedAndCounted ==
  /\ returned # None
  /\ returned.op = "_handle_short_term_memory"
  /\ "cached" \in DOMAIN returned.result
  /\ returned.result.cached
  /\ returned.result.remaining_rounds = ConfiguredInterval - 1
  /\ \E row \in Matching(chat_memory, returned.user, returned.robot) :
       row.conversation_count = 1

\* ------------------------------------------------- what a write touches
Changed(before, after) == after.id = before.id /\ after # before
OneTextPerWrite ==
  \A before \in chat_memory : \A after \in chat_memory' :
    Changed(before, after)
      => \/ after.long_term_memory = before.long_term_memory
         \/ after.short_term_memory = before.short_term_memory
OneKeyPerWrite ==
  \A b1 \in chat_memory : \A b2 \in chat_memory :
    ((\E a1 \in chat_memory' : Changed(b1, a1))
       /\ (\E a2 \in chat_memory' : Changed(b2, a2)))
      => b1.user_id = b2.user_id /\ b1.robot_id = b2.robot_id

\* C33: a write of short_term_memory (flush or summary) leaves the row's
\* long_term_memory as it was, a write of long_term_memory (consolidation)
\* leaves its short_term_memory as it was, and no write changes a row of
\* another key.
C33_WritesTouchOneTextOfOneKey ==
  [][OneTextPerWrite /\ OneKeyPerWrite]_vars

\* a row that a flush and a consolidation have both written
C33_Witness_BothTextsWritten ==
  \E row \in chat_memory :
    /\ row.short_term_memory # <<>>
    /\ StoredEntries(row) # <<>>


\* ------------------------------------------- the skip hint, recall to save
SaveReturned == returned # None /\ returned.op = "save_conversation"
\* results["vector_memory"] of the save_conversation that returned, if any
VectorReport ==
  IF ~returned.raised /\ "vector_memory" \in DOMAIN returned.result
    THEN returned.result.vector_memory
    ELSE None
\* lines 278-290: store_conversation is awaited once, and its value reported
\* without a reason, on the branch self.vector_store.enabled and not skip
StoreConversationCalls ==
  IF VectorReport # None /\ "reason" \notin DOMAIN VectorReport THEN 1 ELSE 0

\* C34 as the specification states it: a save_conversation of a user other
\* than guest that was given a true skip hint reports the vector memory as
\* not saved, with the reason, and leaves store_conversation uncalled; given
\* a false hint, with the vector store enabled, it calls store_conversation
\* exactly once.
C34_SkipHintDecidesStorage ==
  (SaveReturned /\ returned.user # "guest") =>
    IF returned.skip
      THEN /\ VectorReport = [saved |-> FALSE, reason |-> "skipped"]
           /\ StoreConversationCalls = 0
      ELSE VectorEnabled => StoreConversationCalls = 1


\* ------------------------------ a consolidation that nothing gets in the way of
\* The loop runs a task that asyncio.create_task made and the LLM call of a
\* task returns; here the store answers the task's read and its write, and
\* no caller clears the key.
long_term_task_started(t) ==
  /\ long_term_task_start(t)
  /\ tasks'[t].pc = "llm"

long_term_task_replied(t, reply) ==
  /\ long_term_task_reply(t, reply)
  /\ chat_memory' # chat_memory

\* the turns of one user: keys do not share rows, entries or frames
ConsolidationUsers == {"u1"}
ConsolidationKeys ==
  {cache_key(u, c) : u \in ConsolidationUsers, c \in Range(EnabledCharacters)}
NextConsolidation ==
  \/ \E p \in Procs, u \in ConsolidationUsers, c \in Range(EnabledCharacters),
        um \in Messages, ar \in Responses :
       process_conversation_memory_called(p, u, c, um, ar)
  \/ \E p \in Procs, classification \in RouterClassifications :
       process_conversation_memory_classified(p, classification)
  \/ \E t \in TaskIds : summary_task_start(t)
  \/ \E t \in TaskIds, reply \in SummaryReplies : summary_task_reply(t, reply)
  \/ \E t \in TaskIds : long_term_task_started(t)
  \/ \E t \in TaskIds, reply \in ConsolidationReplies :
       long_term_task_replied(t, reply)

\* the event loop runs every task that is ready, and every LLM call returns
ConsolidationFairness ==
  \A t \in TaskIds :
    /\ WF_vars(long_term_task_started(t))
    /\ WF_vars(\E reply \in ConsolidationReplies :
                 long_term_task_replied(t, reply))

SpecConsolidation ==
  InitMethods /\ [][NextConsolidation]_vars /\ ConsolidationFairness

LongTermScheduled(t, k) == tasks[t].kind = "long_term" /\ KeyOf(t) = k
HasLongTermEntries(k) ==
  \E row \in chat_memory :
    /\ cache_key(row.user_id, row.robot_id) = k
    /\ row.long_term_memory.fmt # "empty"
\* the step that ends consolidation t writes what t built to the key's row
ConsolidationWrites(t) ==
  (Consolidating(t) /\ tasks'[t] = FreeTask) =>
    \E after \in chat_memory' :
      /\ after.user_id = tasks[t].user
      /\ after.robot_id = tasks[t].robot
      /\ after.long_term_memory \in BuiltFromSnapshot(t)

\* C35: a consolidation that process_conversation_memory scheduled for a
\* long_term turn is eventually over, with the key's row holding long-term
\* entries, and the step that ends it writes the outcome of consolidating the
\* new fact with the entries it had read, when the store serves the task and
\* the key is not cleared.
C35_ConsolidationEventuallyWrites ==
  /\ \A t \in TaskIds : \A k \in ConsolidationKeys :
       LongTermScheduled(t, k) ~>
         (~LongTermScheduled(t, k) /\ HasLongTermEntries(k))
  /\ [][\A t \in TaskIds : ConsolidationWrites(t)]_vars

\* a turn was acknowledged as long_term and the fact it carried is stored,
\* no consolidation of the key being left
C35_Witness_FactConsolidated ==
  /\ returned # None
  /\ returned.op = "process_conversation_memory"
  /\ ~returned.raised
  /\ "memory_type" \in DOMAIN returned.result
  /\ returned.result.memory_type = "long_term"
  /\ \A t \in TaskIds : tasks[t].kind # "long_term"
  /\ \E row \in chat_memory :
       /\ row.user_id = returned.user
       /\ row.robot_id = returned.robot
       /\ \E i \in DOMAIN StoredEntries(row) :
            StoredEntries(row)[i].content = returned.classification.memory_content


\* -------------------------------------- the round counter and what is pending
\* a summary of the key is scheduled or waits for its LLM call; a flush has no
\* suspension point and is never in progress between two steps
SummaryInProgress(k) ==
  \E t \in TaskIds : tasks[t].kind = "summary" /\ KeyOf(t) = k
PendingItems(e) == Len(e.memories) + Len(e.dialogues)

PendingExchanges(cache, k) == Entry(cache, k).dialogues
\* in this step an exchange that was pending for the key stops being pending
ExchangesLeft(k) ==
  LET before == PendingExchanges(short_term_cache, k)
      after == PendingExchanges(short_term_cache', k)
  IN ~(Len(after) >= Len(before) /\ SubSeq(after, 1, Len(before)) = before)
\* the step ends a summary of the key with its write to the store
SummaryWritten(k) ==
  \E t \in TaskIds :
    /\ Summarizing(t)
    /\ KeyOf(t) = k
    /\ tasks'[t] = FreeTask
    /\ chat_memory' # chat_memory
\* the step is a clear_memory of the key
ClearedBy(k) ==
  /\ started' # started
  /\ calls' = calls
  /\ returned' # None
  /\ returned'.op = "clear_memory"
  /\ cache_key(returned'.user, returned'.robot) = k

Quiescent ==
  /\ \A p \in Procs : calls[p].pc = "idle"
  /\ \A t \in TaskIds : tasks[t].kind = "free"
\* under SpecConsolidation every call is a process_conversation_memory of the
\* one key, so the calls started are the turns of the key
TurnsCompleted == started - Cardinality({p \in Procs : calls[p].pc # "idle"})

InFlight(t) == tasks[t].kind \in {"summary", "long_term"} /\ tasks[t].pc = "llm"
\* the record task t read before its LLM call has been deleted since
ClearedInFlight(t) ==
  /\ InFlight(t)
  /\ tasks[t].memory_id # 0
  /\ \A row \in chat_memory : row.id # tasks[t].memory_id
\* the step leaves the rows of t's key as they are and adds nothing to what is
\* pending for the key
WritesNothing(t) ==
  /\ Matching(chat_memory', tasks[t].user, tasks[t].robot)
       = Matching(chat_memory, tasks[t].user, tasks[t].robot)
  /\ Entry(short_term_cache', KeyOf(t)).memories
       = Entry(short_term_cache, KeyOf(t)).memories
  /\ Len(PendingExchanges(short_term_cache', KeyOf(t)))
       <= Len(PendingExchanges(short_term_cache, KeyOf(t)))

NothingRecalled ==
  [combined_history |-> <<>>, nickname |-> FallbackNickname,
   persistent_memory |-> [short_term |-> <<>>, long_term |-> EmptyText],
   skip_vector_storage |-> FALSE, raised |-> FALSE]
\* get_combined_memory for guest, called in the present state, whatever the
\* dialogue table, the store and the vector service would have answered
GuestRecallsNothing ==
  \A c \in RecallCharacters, read \in HistoryReads, f \in 0..1,
     env \in RecallOutcomes :
    get_combined_memory(chat_memory, points, "guest", c, read, f, env)
      = NothingRecalled
\* no tier holds anything of guest, and no call of guest waits for the
\* classifier
NothingOfGuest ==
  /\ \A row \in chat_memory : row.user_id # "guest"
  /\ \A c \in CharacterIds : cache_key("guest", c) \notin DOMAIN short_term_cache
  /\ \A i \in DOMAIN points : points[i].payload.user_id # "guest"
  /\ \A t \in TaskIds : tasks[t].user # "guest"
  /\ \A p \in Procs : calls[p].user # "guest"
\* the step is a save_conversation of guest that returned
GuestSaved ==
  /\ started' # started
  /\ calls' = calls
  /\ returned' # None
  /\ returned'.op = "save_conversation"
  /\ returned'.user = "guest"
GuestSaveWritesNothing ==
  GuestSaved =>
    /\ returned'.result = [saved |-> FALSE, message |-> "guest"]
    /\ UNCHANGED <<chat_memory, next_id, short_term_cache, tasks, points>>

\* C40: for the user guest no memory tier is read or written:
\* get_combined_memory returns an empty history, empty persistent memory, no
\* vector match and a false skip hint, and save_conversation returns at once,
\* with no classifier call, no record, no accumulator entry and no vector
\* point of guest.
C40_GuestTouchesNoTier ==
  /\ [](GuestRecallsNothing /\ NothingOfGuest)
  /\ [][GuestSaveWritesNothing]_vars

\* a save_conversation of guest returned while the store and the collection
\* hold what turns of other users left
C40_Witness_GuestTurnAmongOthers ==
  /\ SaveReturned
  /\ returned.user = "guest"
  /\ chat_memory # {}
  /\ DOMAIN points # {}

====
